---- MODULE Spec2Model ----
(***************************************************************************)
(* Review lifecycle of the AI code reviewer: the webhook handlers of       *)
(* src/src/webhooks/handler.ts (class WebhookHandlers) over the relational *)
(* store (Review, FileChange, ReviewComment, Installation, Repository),    *)
(* and the file analysis of FileAnalysisService (src/unnamed/part_000).    *)
(*                                                                         *)
(* Every awaited store call of a handler is one step: handlers interleave  *)
(* at their await points only.  A prisma.$transaction block is one step:   *)
(* its statements commit together or not at all.                           *)
(* The loop of handleRepositoryChanges is one step as well: nothing here   *)
(* is about another handler running between two of its store calls.        *)
(***************************************************************************)
EXTENDS Integers, Sequences, FiniteSets, TLC

\* Number of pull_request deliveries that may be in flight together.
MaxTasks == 2

Tasks == 1..MaxTasks

NoReview == 0

\* ------------------------------------------------------------------------
\* Inputs: pull requests, installations, fetched file lists
\* ------------------------------------------------------------------------

\* The installation a repository belongs to (payload.installation.id).
InstallationOf(repoFullName) ==
    IF repoFullName = "acme/widgets" THEN 101 ELSE 202

\* (prNumber, repoFullName) pairs of the delivered pull_request events: two
\* pull requests with the same number in repositories of two installations.
Keys == {<<12, "acme/widgets">>, <<12, "other/tools">>}

Installations == {101, 202}

QueueActions == {"opened", "synchronize", "reopened"}

OtherActions == {"edited"}

\* A changed file as the platform reports it.  filename and every patch line
\* are sequences of characters; patch is the list patch.split('\n') yields,
\* and <<>> stands for a file without a patch.
FileA ==
    [filename |-> <<"a", ".", "j", "s">>, status |-> "modified",
     additions |-> 1, deletions |-> 0,
     patch |-> << <<"@", "@", " ", "-", "1", " ", "+", "1", " ", "@", "@">>,
                  <<"+", "c", "o", "n", "s", "o", "l", "e", ".", "l", "o",
                    "g", "(", "1", ")">> >>]

FileB ==
    [filename |-> <<"b", ".", "p", "n", "g">>, status |-> "modified",
     additions |-> 0, deletions |-> 0, patch |-> <<>>]

\* The changed files of the pull requests.  A fetched file is kept by its
\* filename; File gives the descriptor that goes with it.
Files == {FileA, FileB}

File(filename) == CHOOSE file \in Files : file.filename = filename

\* What githubService.getPRFiles may return for a pull request.
FileLists == {<<>>, <<FileA.filename, FileB.filename>>}

\* ------------------------------------------------------------------------
\* Text: a string is a sequence of one-character strings
\* ------------------------------------------------------------------------

Upper == <<"A", "B", "C", "D", "E", "F", "G", "H", "I", "J", "K", "L", "M",
           "N", "O", "P", "Q", "R", "S", "T", "U", "V", "W", "X", "Y", "Z">>

Lower == <<"a", "b", "c", "d", "e", "f", "g", "h", "i", "j", "k", "l", "m",
           "n", "o", "p", "q", "r", "s", "t", "u", "v", "w", "x", "y", "z">>

Digits == {"0", "1", "2", "3", "4", "5", "6", "7", "8", "9"}

\* String.prototype.toLowerCase, per character and per string.
LowerChar(c) ==
    IF \E i \in 1..26 : Upper[i] = c
    THEN Lower[CHOOSE i \in 1..26 : Upper[i] = c]
    ELSE c

ToLower(s) == [i \in 1..Len(s) |-> LowerChar(s[i])]

\* \s and \w of the regular expressions.
IsSpace(c) == c \in {" ", "\t"}

IsWord(c) ==
    \/ c \in Digits
    \/ c = "_"
    \/ \E i \in 1..26 : Upper[i] = c \/ Lower[i] = c

\* s has the literal lit at position i.
HasAt(s, i, lit) ==
    /\ i >= 1
    /\ i + Len(lit) - 1 <= Len(s)
    /\ SubSeq(s, i, i + Len(lit) - 1) = lit

\* RegExp.test for a literal pattern: lit occurs somewhere in s.
Contains(s, lit) == \E i \in 1..Len(s) : HasAt(s, i, lit)

\* String.prototype.startsWith.
StartsWith(s, lit) == HasAt(s, 1, lit)

\* First position at or after i that holds no white space (Len(s)+1 if none):
\* where a greedy \s* starting at i stops.
RECURSIVE SkipSpace(_, _)
SkipSpace(s, i) ==
    IF i <= Len(s) /\ IsSpace(s[i]) THEN SkipSpace(s, i + 1) ELSE i

\* String.prototype.trim.
RECURSIVE TrimEnd(_)
TrimEnd(s) ==
    IF Len(s) > 0 /\ IsSpace(s[Len(s)]) THEN TrimEnd(SubSeq(s, 1, Len(s) - 1))
    ELSE s

Trim(s) == TrimEnd(SubSeq(s, SkipSpace(s, 1), Len(s)))

\* \b before position i: s[i] is a word character and s[i-1] is not.
WordStartsAt(s, i) ==
    /\ i <= Len(s)
    /\ IsWord(s[i])
    /\ (i = 1 \/ ~IsWord(s[i - 1]))

\* path.basename: the part after the last '/'.
Basename(f) ==
    LET slashes == {i \in 1..Len(f) : f[i] = "/"}
    IN  IF slashes = {} THEN f
        ELSE SubSeq(f, (CHOOSE i \in slashes : \A j \in slashes : j <= i) + 1,
                    Len(f))

\* path.extname: from the last '.' of the basename to its end; empty when the
\* basename has no '.' or its only '.' is its first character.
Extname(f) ==
    LET b == Basename(f)
        dots == {i \in 1..Len(b) : b[i] = "."}
        last == CHOOSE i \in dots : \A j \in dots : j <= i
    IN  IF dots = {} THEN <<>>
        ELSE IF last = 1 THEN <<>>
        ELSE SubSeq(b, last, Len(b))

\* ------------------------------------------------------------------------
\* FileAnalysisService
\* ------------------------------------------------------------------------

SUPPORTED_EXTENSIONS ==
    {<<".", "j", "s">>,
     <<".", "t", "s">>,
     <<".", "j", "s", "x">>,
     <<".", "t", "s", "x">>,
     <<".", "p", "y">>,
     <<".", "j", "a", "v", "a">>,
     <<".", "g", "o">>,
     <<".", "r", "s">>,
     <<".", "p", "h", "p">>,
     <<".", "r", "b">>,
     <<".", "s", "w", "i", "f", "t">>,
     <<".", "k", "t">>,
     <<".", "s", "c", "a", "l", "a">>,
     <<".", "c", "p", "p">>,
     <<".", "c">>,
     <<".", "c", "s">>,
     <<".", "d", "a", "r", "t">>}

BINARY_EXTENSIONS ==
    {<<".", "p", "n", "g">>,
     <<".", "j", "p", "g">>,
     <<".", "j", "p", "e", "g">>,
     <<".", "g", "i", "f">>,
     <<".", "s", "v", "g">>,
     <<".", "i", "c", "o">>,
     <<".", "p", "d", "f">>,
     <<".", "z", "i", "p">>,
     <<".", "t", "a", "r">>,
     <<".", "g", "z">>,
     <<".", "e", "x", "e">>,
     <<".", "d", "l", "l">>,
     <<".", "s", "o">>,
     <<".", "d", "y", "l", "i", "b">>}

\* The literal deny-list patterns; packages\/.*\/lib\/ is IgnoredPackagesLib.
IGNORE_PATTERNS ==
    {<<"n", "o", "d", "e", "_", "m", "o", "d", "u", "l", "e", "s">>,
     <<".", "m", "i", "n", ".">>,
     <<".", "b", "u", "n", "d", "l", "e", ".">>,
     <<".", "g", "e", "n", "e", "r", "a", "t", "e", "d", ".">>,
     <<"d", "i", "s", "t", "/">>,
     <<"b", "u", "i", "l", "d", "/">>,
     <<"c", "o", "v", "e", "r", "a", "g", "e", "/">>,
     <<".", "g", "i", "t", "/">>,
     <<"v", "e", "n", "d", "o", "r", "/">>}

\* /packages\/.*\/lib\//: "packages/", any text, then "/lib/".
IgnoredPackagesLib(f) ==
    \E i \in 1..Len(f) :
        /\ HasAt(f, i, <<"p", "a", "c", "k", "a", "g", "e", "s", "/">>)
        /\ \E j \in (i + 9)..Len(f) : HasAt(f, j, <<"/", "l", "i", "b", "/">>)

configFiles ==
    {<<"D", "o", "c", "k", "e", "r", "f", "i", "l", "e">>,
     <<"M", "a", "k", "e", "f", "i", "l", "e">>,
     <<"p", "a", "c", "k", "a", "g", "e", ".", "j", "s", "o", "n">>,
     <<"t", "s", "c", "o", "n", "f", "i", "g", ".", "j", "s", "o", "n">>,
     <<"w", "e", "b", "p", "a", "c", "k", ".", "c", "o", "n", "f", "i", "g", ".", "j", "s">>,
     <<".", "e", "s", "l", "i", "n", "t", "r", "c">>,
     <<".", "b", "a", "b", "e", "l", "r", "c">>,
     <<"d", "o", "c", "k", "e", "r", "-", "c", "o", "m", "p", "o", "s", "e", ".", "y", "m", "l">>}

\* Mutant of isConfigFile: only the listed names count, a leading dot does
\* not.
isConfigFile_ListOnly(filename) ==
    LET basename == Basename(filename)
    IN  basename \in configFiles

isConfigFile(filename) ==
    LET basename == Basename(filename)
    IN  basename \in configFiles \/ StartsWith(basename, <<".">>)

\* Mutant of shouldReview: the config-file rule is tried before the
\* exclusions.
shouldReview_ConfigFirst(filename, status) ==
    LET ext == ToLower(Extname(filename))
    IN  IF isConfigFile(filename) THEN TRUE
        ELSE IF status = "removed" THEN FALSE
        ELSE IF ext \in BINARY_EXTENSIONS THEN FALSE
        ELSE IF \/ \E pattern \in IGNORE_PATTERNS : Contains(filename, pattern)
                \/ IgnoredPackagesLib(filename)
             THEN FALSE
        ELSE IF ext \notin SUPPORTED_EXTENSIONS
             THEN ext = <<>> \/ isConfigFile(filename)
        ELSE TRUE

shouldReview(filename, status) ==
    LET ext == ToLower(Extname(filename))
    IN  IF status = "removed" THEN FALSE
        ELSE IF ext \in BINARY_EXTENSIONS THEN FALSE
        ELSE IF \/ \E pattern \in IGNORE_PATTERNS : Contains(filename, pattern)
                \/ IgnoredPackagesLib(filename)
             THEN FALSE
        ELSE IF ext \notin SUPPORTED_EXTENSIONS
             THEN ext = <<>> \/ isConfigFile(filename)
        ELSE TRUE

getLanguage(filename) ==
    LET ext == ToLower(Extname(filename))
    IN  CASE ext = <<".", "j", "s">> -> "javascript"
         [] ext = <<".", "j", "s", "x">> -> "javascript"
         [] ext = <<".", "t", "s">> -> "typescript"
         [] ext = <<".", "t", "s", "x">> -> "typescript"
         [] ext = <<".", "p", "y">> -> "python"
         [] ext = <<".", "j", "a", "v", "a">> -> "java"
         [] ext = <<".", "g", "o">> -> "go"
         [] ext = <<".", "r", "s">> -> "rust"
         [] ext = <<".", "p", "h", "p">> -> "php"
         [] ext = <<".", "r", "b">> -> "ruby"
         [] ext = <<".", "s", "w", "i", "f", "t">> -> "swift"
         [] ext = <<".", "k", "t">> -> "kotlin"
         [] ext = <<".", "s", "c", "a", "l", "a">> -> "scala"
         [] ext = <<".", "c", "p", "p">> -> "cpp"
         [] ext = <<".", "c">> -> "c"
         [] ext = <<".", "c", "s">> -> "csharp"
         [] ext = <<".", "d", "a", "r", "t">> -> "dart"
         [] OTHER -> "unknown"

Quotes == {"\"", "'"}

\* The rest of a secret pattern after its keyword, from position i:
\* \s*[=:]\s*["'][^"']+["'].
SecretTail(s, i) ==
    LET j == SkipSpace(s, i)
    IN  /\ j <= Len(s)
        /\ s[j] \in {"=", ":"}
        /\ LET k == SkipSpace(s, j + 1)
           IN  /\ k + 2 <= Len(s)
               /\ s[k] \in Quotes
               /\ s[k + 1] \notin Quotes
               /\ \E q \in (k + 2)..Len(s) : s[q] \in Quotes

\* The keywords of the four secretPatterns, in the order of the list; the
\* patterns are case-insensitive and api[_-]?key has three spellings.
secretPatterns ==
    << {<<"p", "a", "s", "s", "w", "o", "r", "d">>}, {<<"a", "p", "i", "k", "e", "y">>, <<"a", "p", "i", "_", "k", "e", "y">>, <<"a", "p", "i", "-", "k", "e", "y">>}, {<<"s", "e", "c", "r", "e", "t">>}, {<<"t", "o", "k", "e", "n">>} >>

SecretMatches(line, p) ==
    \E kw \in secretPatterns[p] : \E i \in 1..Len(line) :
        /\ HasAt(ToLower(line), i, kw)
        /\ SecretTail(line, i + Len(kw))

CredentialIssue(lineNumber) ==
    [line |-> lineNumber, severity |-> "critical", type |-> "security",
     message |-> "Potential hardcoded credential detected",
     suggestion |-> "Use environment variables or secure credential storage",
     rule |-> "no-hardcoded-credentials"]

\* Mutant of SecretIssues: the patterns are tried in turn and the first that
\* matches ends the search.
RECURSIVE SecretIssues_FirstOnly(_, _, _)
SecretIssues_FirstOnly(line, lineNumber, p) ==
    IF p > Len(secretPatterns) THEN <<>>
    ELSE IF SecretMatches(line, p) THEN <<CredentialIssue(lineNumber)>>
    ELSE SecretIssues_FirstOnly(line, lineNumber, p + 1)

RECURSIVE SecretIssues(_, _, _)
SecretIssues(line, lineNumber, p) ==
    IF p > Len(secretPatterns) THEN <<>>
    ELSE (IF SecretMatches(line, p) THEN <<CredentialIssue(lineNumber)>>
          ELSE <<>>) \o SecretIssues(line, lineNumber, p + 1)

\* /TODO|FIXME|HACK/i
TodoMatches(line) ==
    \E kw \in {<<"t", "o", "d", "o">>, <<"f", "i", "x", "m", "e">>, <<"h", "a", "c", "k">>} : Contains(ToLower(line), kw)

checkCommonIssues(line, lineNumber) ==
    SecretIssues(line, lineNumber, 1) \o
    (IF TodoMatches(line)
     THEN <<[line |-> lineNumber, severity |-> "low", type |-> "quality",
             message |-> "TODO comment found",
             suggestion |-> "Consider creating an issue or completing the task",
             rule |-> "no-todo-comments"]>>
     ELSE <<>>)

\* lit, then \s*, then the character c.
LitSpaceChar(s, i, lit, c) ==
    /\ HasAt(s, i, lit)
    /\ LET j == SkipSpace(s, i + Len(lit)) IN j <= Len(s) /\ s[j] = c

\* /console\.log\s*\(/
ConsoleLogMatches(line) ==
    \E i \in 1..Len(line) : LitSpaceChar(line, i, <<"c", "o", "n", "s", "o", "l", "e", ".", "l", "o", "g">>, "(")

\* /[^=!]==[^=]/
LooseEqualityMatches(line) ==
    \E i \in 1..Len(line) :
        /\ i + 3 <= Len(line)
        /\ line[i] \notin {"=", "!"}
        /\ line[i + 1] = "="
        /\ line[i + 2] = "="
        /\ line[i + 3] # "="

\* /\bvar\s+\w+/
VarMatches(line) ==
    \E i \in 1..Len(line) :
        /\ WordStartsAt(line, i)
        /\ HasAt(line, i, <<"v", "a", "r">>)
        /\ i + 3 <= Len(line)
        /\ IsSpace(line[i + 3])
        /\ LET j == SkipSpace(line, i + 3) IN j <= Len(line) /\ IsWord(line[j])

\* /\beval\s*\(/
EvalMatches(line) ==
    \E i \in 1..Len(line) :
        WordStartsAt(line, i) /\ LitSpaceChar(line, i, <<"e", "v", "a", "l">>, "(")

checkJavaScriptIssues(line, lineNumber) ==
    (IF ConsoleLogMatches(line)
     THEN <<[line |-> lineNumber, severity |-> "medium", type |-> "quality",
             message |-> "Console.log statement found",
             suggestion |-> "Remove console.log or use proper logging library",
             rule |-> "no-console"]>>
     ELSE <<>>) \o
    (IF LooseEqualityMatches(line)
     THEN <<[line |-> lineNumber, severity |-> "medium", type |-> "quality",
             message |-> "Use strict equality (===) instead of loose equality (==)",
             suggestion |-> "Replace == with ===",
             rule |-> "strict-equality"]>>
     ELSE <<>>) \o
    (IF VarMatches(line)
     THEN <<[line |-> lineNumber, severity |-> "low", type |-> "quality",
             message |-> "Use let or const instead of var",
             suggestion |-> "Replace var with let or const",
             rule |-> "no-var"]>>
     ELSE <<>>) \o
    (IF EvalMatches(line)
     THEN <<[line |-> lineNumber, severity |-> "high", type |-> "security",
             message |-> "eval() usage detected - potential security risk",
             suggestion |-> "Avoid using eval(), consider safer alternatives",
             rule |-> "no-eval"]>>
     ELSE <<>>)

\* /\bprint\s*\(/
PrintMatches(line) ==
    \E i \in 1..Len(line) :
        WordStartsAt(line, i) /\ LitSpaceChar(line, i, <<"p", "r", "i", "n", "t">>, "(")

\* /except\s*:/
BareExceptMatches(line) ==
    \E i \in 1..Len(line) : LitSpaceChar(line, i, <<"e", "x", "c", "e", "p", "t">>, ":")

checkPythonIssues(line, lineNumber) ==
    (IF PrintMatches(line)
     THEN <<[line |-> lineNumber, severity |-> "low", type |-> "quality",
             message |-> "Print statement found",
             suggestion |-> "Use logging instead of print for production code",
             rule |-> "no-print"]>>
     ELSE <<>>) \o
    (IF BareExceptMatches(line)
     THEN <<[line |-> lineNumber, severity |-> "medium", type |-> "quality",
             message |-> "Bare except clause",
             suggestion |-> "Catch specific exceptions instead of using bare except",
             rule |-> "specific-exceptions"]>>
     ELSE <<>>)

\* Mutant of checkLineForIssues: the skip test looks at the line as given,
\* not at the trimmed line.
checkLineForIssues_NoTrim(line, lineNumber, language) ==
    IF \/ line = <<>>
       \/ StartsWith(line, <<"/", "/">>)
       \/ StartsWith(line, <<"#">>)
    THEN <<>>
    ELSE checkCommonIssues(line, lineNumber) \o
         (CASE language \in {"javascript", "typescript"} ->
                   checkJavaScriptIssues(line, lineNumber)
            [] language = "python" -> checkPythonIssues(line, lineNumber)
            [] OTHER -> <<>>)

\* Mutant of checkLineForIssues: the rules of the language run before the
\* common rules.
checkLineForIssues_LanguageFirst(line, lineNumber, language) ==
    LET trimmedLine == Trim(line)
    IN  IF \/ trimmedLine = <<>>
           \/ StartsWith(trimmedLine, <<"/", "/">>)
           \/ StartsWith(trimmedLine, <<"#">>)
        THEN <<>>
        ELSE (CASE language \in {"javascript", "typescript"} ->
                       checkJavaScriptIssues(line, lineNumber)
                [] language = "python" -> checkPythonIssues(line, lineNumber)
                [] OTHER -> <<>>)
             \o checkCommonIssues(line, lineNumber)

checkLineForIssues(line, lineNumber, language) ==
    LET trimmedLine == Trim(line)
    IN  IF \/ trimmedLine = <<>>
           \/ StartsWith(trimmedLine, <<"/", "/">>)
           \/ StartsWith(trimmedLine, <<"#">>)
        THEN <<>>
        ELSE checkCommonIssues(line, lineNumber) \o
             (CASE language \in {"javascript", "typescript"} ->
                       checkJavaScriptIssues(line, lineNumber)
                [] language = "python" -> checkPythonIssues(line, lineNumber)
                [] OTHER -> <<>>)

\* parseInt of a run of digits.
DigitValue(c) ==
    CASE c = "0" -> 0 [] c = "1" -> 1 [] c = "2" -> 2 [] c = "3" -> 3
      [] c = "4" -> 4 [] c = "5" -> 5 [] c = "6" -> 6 [] c = "7" -> 7
      [] c = "8" -> 8 [] c = "9" -> 9

RECURSIVE ParseDigits(_, _, _)
ParseDigits(s, i, acc) ==
    IF i <= Len(s) /\ s[i] \in Digits
    THEN ParseDigits(s, i + 1, acc * 10 + DigitValue(s[i]))
    ELSE acc

\* line.match(/\+(\d+)/): the positions of a '+' followed by a digit; the
\* match is the leftmost one and takes every digit that follows.
HunkMatches(line) ==
    {i \in 1..(Len(line) - 1) : line[i] = "+" /\ line[i + 1] \in Digits}

\* Mutant of HunkStart: only the first digit of the declared start is read.
HunkStart_FirstDigit(line) ==
    LET i == CHOOSE i \in HunkMatches(line) : \A j \in HunkMatches(line) : i <= j
    IN  DigitValue(line[i + 1])

HunkStart(line) ==
    LET i == CHOOSE i \in HunkMatches(line) : \A j \in HunkMatches(line) : i <= j
    IN  ParseDigits(line, i + 1, 0)

\* Mutant of ScanLine: a context line advances the counter as well.
ScanLine_CountsContext(line, currentLine) ==
    IF StartsWith(line, <<"@", "@">>)
    THEN [counter |-> IF HunkMatches(line) # {}
                      THEN HunkStart(line) - 1 ELSE currentLine,
          added |-> <<>>]
    ELSE IF StartsWith(line, <<"+">>)
    THEN [counter |-> currentLine + 1,
          added |-> <<[line |-> currentLine + 1,
                       content |-> SubSeq(line, 2, Len(line))]>>]
    ELSE IF StartsWith(line, <<" ">>)
    THEN [counter |-> currentLine + 1, added |-> <<>>]
    ELSE [counter |-> currentLine, added |-> <<>>]

\* Mutant of ScanLine: a header that does not match resets the counter.
ScanLine_ResetsOnBadHeader(line, currentLine) ==
    IF StartsWith(line, <<"@", "@">>)
    THEN [counter |-> IF HunkMatches(line) # {}
                      THEN HunkStart(line) - 1 ELSE 0,
          added |-> <<>>]
    ELSE IF StartsWith(line, <<"+">>)
    THEN [counter |-> currentLine + 1,
          added |-> <<[line |-> currentLine + 1,
                       content |-> SubSeq(line, 2, Len(line))]>>]
    ELSE [counter |-> currentLine, added |-> <<>>]

\* One iteration of the loop of performBasicAnalysis over the line `line`,
\* currentLine being the running line counter: the counter afterwards, and
\* the added line handed to checkLineForIssues (its number and its content
\* after the '+'), if any.
ScanLine(line, currentLine) ==
    IF StartsWith(line, <<"@", "@">>)
    THEN [counter |-> IF HunkMatches(line) # {}
                      THEN HunkStart(line) - 1 ELSE currentLine,
          added |-> <<>>]
    ELSE IF StartsWith(line, <<"+">>)
    THEN [counter |-> currentLine + 1,
          added |-> <<[line |-> currentLine + 1,
                       content |-> SubSeq(line, 2, Len(line))]>>]
    ELSE [counter |-> currentLine, added |-> <<>>]

\* The loop of performBasicAnalysis from line i on, currentLine being the
\* running line counter.
RECURSIVE AnalysisLoop(_, _, _, _)
AnalysisLoop(lines, i, currentLine, language) ==
    IF i > Len(lines) THEN <<>>
    ELSE LET step == ScanLine(lines[i], currentLine)
         IN  (IF Len(step.added) = 0 THEN <<>>
              ELSE checkLineForIssues(step.added[1].content,
                                      step.added[1].line, language))
             \o AnalysisLoop(lines, i + 1, step.counter, language)

performBasicAnalysis(patch, language) == AnalysisLoop(patch, 1, 0, language)

analyzeFile(file) ==
    LET review == shouldReview(file.filename, file.status)
        language == getLanguage(file.filename)
    IN  [filename |-> file.filename,
         language |-> language,
         additions |-> file.additions,
         deletions |-> file.deletions,
         patch |-> file.patch,
         shouldReview |-> review,
         issues |-> IF review /\ file.patch # <<>>
                    THEN performBasicAnalysis(file.patch, language)
                    ELSE <<>>]

\* The alternatives if|for|while|function|class, in the order of the
\* pattern.
NestingKeywords ==
    << <<"i", "f">>, <<"f", "o", "r">>, <<"w", "h", "i", "l", "e">>,
       <<"f", "u", "n", "c", "t", "i", "o", "n">>, <<"c", "l", "a", "s", "s">> >>

\* content.match(/[{([]|if|for|while|function|class/g) counted from position
\* i: the matches are taken left to right and do not overlap, so the scan
\* resumes after the end of each match.
RECURSIVE OpenBraces(_, _)
OpenBraces(content, i) ==
    IF i > Len(content) THEN 0
    ELSE IF content[i] \in {"{", "(", "["} THEN 1 + OpenBraces(content, i + 1)
    ELSE IF \E k \in 1..Len(NestingKeywords) :
                HasAt(content, i, NestingKeywords[k])
         THEN LET k == CHOOSE n \in 1..Len(NestingKeywords) :
                           /\ HasAt(content, i, NestingKeywords[n])
                           /\ \A m \in 1..(n - 1) :
                                  ~HasAt(content, i, NestingKeywords[m])
              IN  1 + OpenBraces(content, i + Len(NestingKeywords[k]))
    ELSE OpenBraces(content, i + 1)

\* content.match(/[})\]]/g) counted.
CloseBraces(content) ==
    Cardinality({i \in 1..Len(content) : content[i] \in {"}", ")", "]"}})

\* The loop of calculateNestingLevel from line i on.
RECURSIVE NestingLoop(_, _, _, _)
NestingLoop(lines, i, currentNesting, maxNesting) ==
    IF i > Len(lines) THEN [current |-> currentNesting, max |-> maxNesting]
    ELSE IF StartsWith(lines[i], <<"+">>)
         THEN LET content == SubSeq(lines[i], 2, Len(lines[i]))
                  next == currentNesting + OpenBraces(content, 1)
                              - CloseBraces(content)
              IN  NestingLoop(lines, i + 1, next,
                              IF next > maxNesting THEN next ELSE maxNesting)
    ELSE NestingLoop(lines, i + 1, currentNesting, maxNesting)

\* Mutant of calculateNestingLevel: the nesting at the end of the patch
\* instead of the deepest one.
calculateNestingLevel_AtEnd(patch) ==
    LET end == NestingLoop(patch, 1, 0, 0).current
    IN  IF end > 0 THEN end ELSE 0

calculateNestingLevel(patch) ==
    LET maxNesting == NestingLoop(patch, 1, 0, 0).max
    IN  IF maxNesting > 0 THEN maxNesting ELSE 0

getComplexityScore(patch) ==
    LET lines == Cardinality({i \in 1..Len(patch) :
                                 StartsWith(patch[i], <<"+">>)})
        nestingLevel == calculateNestingLevel(patch)
        sum == (lines \div 10) + nestingLevel
    IN  IF sum < 10 THEN sum ELSE 10

\* ------------------------------------------------------------------------
\* The store and the handlers in flight
\* ------------------------------------------------------------------------

VARIABLES
    reviews,         \* Review rows
    fileChanges,     \* FileChange rows
    reviewComments,  \* ReviewComment rows
    installations,   \* Installation rows
    repositories,    \* Repository rows
    nextReviewId,    \* the next auto-increment id of Review
    tasks,           \* tasks[t]: the handlePullRequest call of delivery t
    repoChange,      \* the installation_repositories delivery being handled
    serviceCall      \* a FileAnalysisService or progress computation in
                     \* progress: its arguments, position and result

vars == <<reviews, fileChanges, reviewComments, installations, repositories,
          nextReviewId, tasks, repoChange, serviceCall>>

\* What the pull_request and installation handlers never touch.
others == <<repoChange, serviceCall>>

store == <<reviews, fileChanges, reviewComments, installations, repositories,
           nextReviewId>>

\* FileChange and ReviewComment rows carry two fields the tables do not have:
\* run, the delivery whose handler inserted the row, and idx, the position of
\* a comment in its createMany batch.  They stand for the auto-increment ids
\* that make two inserted rows different rows.  Timestamps other than
\* completedAt (null or set) are left out.

\* Deliveries are numbered in the order their handlers start.
Startable(t) ==
    /\ tasks[t].pc = "idle"
    /\ IF t = 1 THEN TRUE ELSE tasks[t - 1].pc # "idle"

\* No installation_repositories delivery is being handled.
NoRepoChange == [pc |-> "idle"]

\* No computation in progress.
NoCall == [op |-> "none"]

IdleTask ==
    [pc |-> "idle", key |-> <<0, "">>, reviewId |-> NoReview,
     files |-> <<>>, analyzedCount |-> 0, error |-> "", result |-> "none",
     outcome |-> "none"]

\* handlePullRequest has returned normally (its promise resolved): the
\* handler's locals are gone.  What is kept records the delivery: its pair,
\* how it ended (outcome) and, for a run whose loop went over every file,
\* the fetched list.
Returned(key, outcome, files) ==
    [IdleTask EXCEPT !.pc = "done", !.key = key, !.result = "returned",
                     !.outcome = outcome, !.files = files]

Init ==
    /\ reviews = {}
    /\ fileChanges = {}
    /\ reviewComments = {}
    /\ installations = {}
    /\ repositories = {}
    /\ nextReviewId = 1
    /\ tasks = [t \in Tasks |-> IdleTask]
    /\ repoChange = NoRepoChange
    /\ serviceCall = NoCall

Matching(rows, key) ==
    {r \in rows : r.prNumber = key[1] /\ r.repoFullName = key[2]}

\* queueReview's reviewData; the pull request's own fields are fixed texts.
QueuedData ==
    [pr_title |-> "title", pr_author |-> "author", pr_url |-> "url",
     head_sha |-> "head", base_sha |-> "base", changed_files |-> 0,
     additions |-> 0, deletions |-> 0, step |-> "queued", progress |-> 0]

\* Mutant of UpsertReview: a create that never looks the pair up.
UpsertReview_AlwaysCreates(rows, key, installationId) ==
    LET new == [id |-> nextReviewId, prNumber |-> key[1],
                repoFullName |-> key[2], installationId |-> installationId,
                status |-> "pending", reviewData |-> QueuedData,
                completedAt |-> "null"]
    IN  [rows |-> rows \cup {new}, review |-> new, created |-> TRUE]

\* Mutant of UpsertReview: the update branch leaves completedAt as it is.
UpsertReview_KeepsCompletedAt(rows, key, installationId) ==
    LET found == Matching(rows, key)
    IN  IF found # {}
        THEN LET old == CHOOSE r \in found : TRUE
                 new == [old EXCEPT !.status = "pending",
                                    !.reviewData = QueuedData]
             IN  [rows |-> (rows \ {old}) \cup {new}, review |-> new,
                  created |-> FALSE]
        ELSE LET new == [id |-> nextReviewId, prNumber |-> key[1],
                         repoFullName |-> key[2],
                         installationId |-> installationId,
                         status |-> "pending", reviewData |-> QueuedData,
                         completedAt |-> "null"]
             IN  [rows |-> rows \cup {new}, review |-> new, created |-> TRUE]

\* tx.review.upsert on the unique pair (prNumber, repoFullName): the rows
\* after it and the row it returns.
UpsertReview(rows, key, installationId) ==
    LET found == Matching(rows, key)
    IN  IF found # {}
        THEN LET old == CHOOSE r \in found : TRUE
                 new == [old EXCEPT !.status = "pending",
                                    !.reviewData = QueuedData,
                                    !.completedAt = "null"]
             IN  [rows |-> (rows \ {old}) \cup {new}, review |-> new,
                  created |-> FALSE]
        ELSE LET new == [id |-> nextReviewId, prNumber |-> key[1],
                         repoFullName |-> key[2],
                         installationId |-> installationId,
                         status |-> "pending", reviewData |-> QueuedData,
                         completedAt |-> "null"]
             IN  [rows |-> rows \cup {new}, review |-> new, created |-> TRUE]

\* Mutants of the two deletions: the deleteMany is missing.
DeleteComments_Keeps(rows, reviewId) == rows

DeleteFileChanges_Keeps(rows, reviewId) == rows

\* tx.reviewComment.deleteMany and tx.fileChange.deleteMany of one review.
DeleteComments(rows, reviewId) == {c \in rows : c.reviewId # reviewId}

DeleteFileChanges(rows, reviewId) == {f \in rows : f.reviewId # reviewId}

\* Mutant of UpdateData: the new fields are merged into the stored blob.
UpdateData_Merges(r, status, reviewData) ==
    [r EXCEPT !.status = status,
              !.reviewData = [f \in DOMAIN @ \cup DOMAIN reviewData |->
                                  IF f \in DOMAIN reviewData
                                  THEN reviewData[f] ELSE @[f]],
              !.completedAt = IF status = "completed" THEN "set" ELSE @]

\* The data updateReviewStatus writes, applied to one row.
UpdateData(r, status, reviewData) ==
    [r EXCEPT !.status = status,
              !.reviewData = reviewData,
              !.completedAt = IF status = "completed" THEN "set" ELSE @]

\* Mutant of UpdateById: a conditional update that refuses to overwrite a
\* terminal status.
UpdateById_KeepsTerminal(rows, reviewId, status, reviewData) ==
    {IF r.id = reviewId /\ r.status \notin {"completed", "failed", "cancelled"}
     THEN UpdateData(r, status, reviewData) ELSE r : r \in rows}

\* updateReviewStatus with a reviewId: prisma.review.update where id.  A
\* missing row makes update throw, which updateReviewStatus swallows.
UpdateById(rows, reviewId, status, reviewData) ==
    {IF r.id = reviewId THEN UpdateData(r, status, reviewData) ELSE r :
         r \in rows}

\* updateReviewStatus without a reviewId: updateMany on the pair.
UpdateByKey(rows, key, status, reviewData) ==
    {IF r \in Matching(rows, key) THEN UpdateData(r, status, reviewData)
     ELSE r : r \in rows}

SetTask(t, new) ==
    /\ tasks' = [tasks EXCEPT ![t] = new]
    /\ UNCHANGED others

\* handlePullRequest -> queueReview: the transaction commits.
QueueReviewTx(t, action, key) ==
    /\ Startable(t)
    /\ action \in QueueActions
    /\ LET up == UpsertReview(reviews, key, InstallationOf(key[2]))
       IN  /\ reviews' = up.rows
           /\ reviewComments' = DeleteComments(reviewComments, up.review.id)
           /\ fileChanges' = DeleteFileChanges(fileChanges, up.review.id)
           /\ nextReviewId' = IF up.created THEN nextReviewId + 1
                              ELSE nextReviewId
           /\ SetTask(t, [tasks[t] EXCEPT !.pc = "status_fetching",
                                          !.key = key,
                                          !.reviewId = up.review.id])
    /\ UNCHANGED <<installations, repositories>>

\* handlePullRequest -> queueReview: the store rejects the transaction;
\* nothing of it is applied and queueReview rethrows.
QueueReviewTxFails(t, action, key) ==
    /\ Startable(t)
    /\ action \in QueueActions
    /\ SetTask(t, [tasks[t] EXCEPT !.pc = "catch_handler",
                                   !.key = key, !.error = "store error"])
    /\ UNCHANGED store

\* The catch block of handlePullRequest.
CatchHandler(t) ==
    /\ tasks[t].pc = "catch_handler"
    /\ reviews' = UpdateByKey(reviews, tasks[t].key, "failed",
                              [error |-> tasks[t].error])
    /\ SetTask(t, Returned(tasks[t].key, "failed", <<>>))
    /\ UNCHANGED <<fileChanges, reviewComments, installations, repositories,
                   nextReviewId>>

\* Mutant of CleanupReview: the cancellation stamps completedAt as a
\* completion does.
CleanupReview_StampsCompletedAt(t, key) ==
    /\ Startable(t)
    /\ reviews' = {IF r \in Matching(reviews, key)
                   THEN [r EXCEPT !.status = "cancelled",
                                  !.completedAt = "set"]
                   ELSE r : r \in reviews}
    /\ SetTask(t, Returned(key, "cancelled", <<>>))
    /\ UNCHANGED <<fileChanges, reviewComments, installations, repositories,
                   nextReviewId>>

\* Mutant of CleanupReview: the updateMany filters on the pull request number
\* alone.
CleanupReview_ByNumberOnly(t, key) ==
    /\ Startable(t)
    /\ reviews' = {IF r.prNumber = key[1]
                   THEN [r EXCEPT !.status = "cancelled"]
                   ELSE r : r \in reviews}
    /\ SetTask(t, Returned(key, "cancelled", <<>>))
    /\ UNCHANGED <<fileChanges, reviewComments, installations, repositories,
                   nextReviewId>>

\* Mutant of CleanupReview: a pull request without a Review gets a cancelled
\* one.
CleanupReview_CreatesRow(t, key) ==
    /\ Startable(t)
    /\ reviews' = IF Matching(reviews, key) = {}
                  THEN reviews \cup
                       {[id |-> nextReviewId, prNumber |-> key[1],
                         repoFullName |-> key[2],
                         installationId |-> InstallationOf(key[2]),
                         status |-> "cancelled", reviewData |-> QueuedData,
                         completedAt |-> "null"]}
                  ELSE {IF r \in Matching(reviews, key)
                        THEN [r EXCEPT !.status = "cancelled"]
                        ELSE r : r \in reviews}
    /\ SetTask(t, Returned(key, "cancelled", <<>>))
    /\ UNCHANGED <<fileChanges, reviewComments, installations, repositories,
                   nextReviewId>>

\* handlePullRequest -> cleanupReview.
CleanupReview(t, key) ==
    /\ Startable(t)
    /\ reviews' = {IF r \in Matching(reviews, key)
                   THEN [r EXCEPT !.status = "cancelled"]
                   ELSE r : r \in reviews}
    /\ SetTask(t, Returned(key, "cancelled", <<>>))
    /\ UNCHANGED <<fileChanges, reviewComments, installations, repositories,
                   nextReviewId>>

\* handlePullRequest: any other action is logged and ignored.
IgnoreAction(t, action, key) ==
    /\ Startable(t)
    /\ action \in OtherActions
    /\ SetTask(t, Returned(IdleTask.key, "ignored", <<>>))
    /\ UNCHANGED store

\* handlePullRequest: the payload has no pull_request or no installation;
\* the handler logs and returns.
MissingPayload(t) ==
    /\ Startable(t)
    /\ SetTask(t, Returned(IdleTask.key, "missing", <<>>))
    /\ UNCHANGED store

\* ------------------------------------------------------------------------
\* startReviewProcess
\* ------------------------------------------------------------------------

StoreOnly == <<fileChanges, reviewComments, installations, repositories,
               nextReviewId>>

\* One updateReviewStatus(null, null, status, reviewData, reviewId) call.
WriteStatus(t, status, reviewData) ==
    reviews' = UpdateById(reviews, tasks[t].reviewId, status, reviewData)

\* updateReviewStatus 'in_progress', fetching_files, 10.
StatusFetching(t) ==
    /\ tasks[t].pc = "status_fetching"
    /\ WriteStatus(t, "in_progress",
                   [step |-> "fetching_files", progress |-> 10])
    /\ SetTask(t, [tasks[t] EXCEPT !.pc = "find_review"])
    /\ UNCHANGED StoreOnly

\* prisma.review.findUnique; a missing row is an error.
FindReview(t) ==
    /\ tasks[t].pc = "find_review"
    /\ IF \E r \in reviews : r.id = tasks[t].reviewId
       THEN SetTask(t, [tasks[t] EXCEPT !.pc = "fetch_files"])
       ELSE SetTask(t, [tasks[t] EXCEPT !.pc = "catch_process",
                                        !.error = "Review not found"])
    /\ UNCHANGED store

\* githubService.getPRFiles returns a file list.
FetchFiles(t, files) ==
    /\ tasks[t].pc = "fetch_files"
    /\ SetTask(t, [tasks[t] EXCEPT !.pc = "status_analyzing",
                                   !.files = files])
    /\ UNCHANGED store

\* githubService.getPRFiles throws.
FetchFilesFails(t) ==
    /\ tasks[t].pc = "fetch_files"
    /\ SetTask(t, [tasks[t] EXCEPT !.pc = "catch_process",
                                   !.error = "Failed to fetch PR files"])
    /\ UNCHANGED store

\* files.filter(f => fileAnalysisService.shouldReviewFile(f.filename,
\* f.status)): FileAnalysisService defines shouldReview and no
\* shouldReviewFile, so the callback throws a TypeError at the first file; over
\* an empty list it is never called.
NotAFunction == "fileAnalysisService.shouldReviewFile is not a function"

FilesToReviewThrows(files) == Len(files) > 0

\* The code after the loop up to its next store call: the arguments of the
\* last updateReviewStatus are evaluated, and the TypeError of files_to_review
\* goes to the catch block.
AfterLoop(task) ==
    IF FilesToReviewThrows(task.files)
    THEN [task EXCEPT !.pc = "catch_process", !.error = NotAFunction]
    ELSE [task EXCEPT !.pc = "status_ready"]

\* updateReviewStatus 'in_progress', analyzing_files, 30, files_found.
StatusAnalyzing(t) ==
    /\ tasks[t].pc = "status_analyzing"
    /\ WriteStatus(t, "in_progress",
                   [step |-> "analyzing_files", progress |-> 30,
                    files_found |-> Len(tasks[t].files)])
    /\ SetTask(t, IF Len(tasks[t].files) = 0 THEN AfterLoop(tasks[t])
                   ELSE [tasks[t] EXCEPT !.pc = "create_file"])
    /\ UNCHANGED StoreOnly

\* fileAnalysisService.analyzeFile(file) for each file a fetch can return.
Analysis == [filename \in {file.filename : file \in Files} |->
                 analyzeFile(File(filename))]

\* The file the loop is at.
CurrentFile(t) == tasks[t].files[tasks[t].analyzedCount + 1]

\* The row of prisma.fileChange.create; its patch column, the patch of
\* File(filename), is not repeated in the row.
FileChangeRow(reviewId, file, t) ==
    LET analysis == Analysis[file]
    IN  [reviewId |-> reviewId, filename |-> analysis.filename,
         status |-> File(file).status, language |-> analysis.language,
         additions |-> analysis.additions, deletions |-> analysis.deletions,
         analyzed |-> TRUE, shouldReview |-> analysis.shouldReview,
         run |-> t]

CommentRows(reviewId, file, t) ==
    LET analysis == Analysis[file]
    IN  {[reviewId |-> reviewId, fileName |-> analysis.filename,
          lineNumber |-> analysis.issues[i].line,
          severity |-> analysis.issues[i].severity,
          type |-> analysis.issues[i].type,
          message |-> analysis.issues[i].message,
          suggestion |-> analysis.issues[i].suggestion,
          rule |-> analysis.issues[i].rule,
          idx |-> i, run |-> t] : i \in 1..Len(analysis.issues)}

\* Mutant of CreateFileChange: a file out of scope gets no row.
CreateFileChange_SkipsOutOfScope(t) ==
    /\ tasks[t].pc = "create_file"
    /\ fileChanges' =
           IF Analysis[CurrentFile(t)].shouldReview
           THEN fileChanges \cup
                {FileChangeRow(tasks[t].reviewId, CurrentFile(t), t)}
           ELSE fileChanges
    /\ SetTask(t, [tasks[t] EXCEPT
                       !.pc = IF Len(Analysis[CurrentFile(t)].issues) > 0
                              THEN "create_comments" ELSE "status_progress"])
    /\ UNCHANGED <<reviews, reviewComments, installations, repositories,
                   nextReviewId>>

\* analyzeFile and prisma.fileChange.create for the current file.
CreateFileChange(t) ==
    /\ tasks[t].pc = "create_file"
    /\ fileChanges' = fileChanges \cup
                      {FileChangeRow(tasks[t].reviewId, CurrentFile(t), t)}
    /\ SetTask(t, [tasks[t] EXCEPT
                       !.pc = IF Len(Analysis[CurrentFile(t)].issues) > 0
                              THEN "create_comments" ELSE "status_progress"])
    /\ UNCHANGED <<reviews, reviewComments, installations, repositories,
                   nextReviewId>>

\* prisma.reviewComment.createMany for the current file's issues.
CreateComments(t) ==
    /\ tasks[t].pc = "create_comments"
    /\ reviewComments' = reviewComments \cup
                         CommentRows(tasks[t].reviewId, CurrentFile(t), t)
    /\ SetTask(t, [tasks[t] EXCEPT !.pc = "status_progress"])
    /\ UNCHANGED <<reviews, fileChanges, installations, repositories,
                   nextReviewId>>

\* The store rejects the insert of the current file's row or comments.
CreateFails(t) ==
    /\ tasks[t].pc \in {"create_file", "create_comments"}
    /\ SetTask(t, [tasks[t] EXCEPT !.pc = "catch_process",
                                   !.error = "store error"])
    /\ UNCHANGED store

\* Mutant of Progress: the share of the files is scaled to 100, not to 40.
Progress_OutOf100(analyzedCount, length) ==
    30 + ((analyzedCount * 100) \div length)

\* 30 + Math.floor((analyzedCount / files.length) * 40)
Progress(analyzedCount, length) == 30 + ((analyzedCount * 40) \div length)

\* Mutant of StatusProgress: analyzedCount is not incremented, so the loop
\* stays at its file.
StatusProgress_StaysAtFile(t) ==
    /\ tasks[t].pc = "status_progress"
    /\ WriteStatus(t, "in_progress",
                   [step |-> "analyzing_files",
                    progress |-> Progress(tasks[t].analyzedCount,
                                          Len(tasks[t].files)),
                    files_analyzed |-> tasks[t].analyzedCount])
    /\ SetTask(t, [tasks[t] EXCEPT !.pc = "create_file"])
    /\ UNCHANGED StoreOnly

\* analyzedCount++ and updateReviewStatus 'in_progress' with the percentage.
StatusProgress(t) ==
    LET count == tasks[t].analyzedCount + 1
    IN  /\ tasks[t].pc = "status_progress"
        /\ WriteStatus(t, "in_progress",
                       [step |-> "analyzing_files",
                        progress |-> Progress(count, Len(tasks[t].files)),
                        files_analyzed |-> count])
        /\ SetTask(t, IF count < Len(tasks[t].files)
                       THEN [tasks[t] EXCEPT !.analyzedCount = count,
                                             !.pc = "create_file"]
                       ELSE AfterLoop([tasks[t] EXCEPT
                                           !.analyzedCount = count]))
        /\ UNCHANGED StoreOnly

\* The last write of a run that met no error; files_to_review is the length
\* of the filtered empty list.
ReadyStatus == "in_progress"

ReadyData(t) ==
    [step |-> "ready_for_ai_review", progress |-> 70,
     files_analyzed |-> tasks[t].analyzedCount,
     files_to_review |-> 0]

StatusReady(t) ==
    /\ tasks[t].pc = "status_ready"
    /\ WriteStatus(t, ReadyStatus, ReadyData(t))
    /\ SetTask(t, Returned(tasks[t].key, "ready", <<>>))
    /\ UNCHANGED StoreOnly

\* The list of a run whose loop went over every file.
AnalyzedFiles(t) ==
    IF tasks[t].error = NotAFunction THEN tasks[t].files ELSE <<>>

\* Mutant of CatchProcess: the catch block also rolls the run's rows back.
CatchProcess_RollsBack(t) ==
    /\ tasks[t].pc = "catch_process"
    /\ WriteStatus(t, "failed", [error |-> tasks[t].error, step |-> "failed"])
    /\ fileChanges' = DeleteFileChanges(fileChanges, tasks[t].reviewId)
    /\ reviewComments' = DeleteComments(reviewComments, tasks[t].reviewId)
    /\ SetTask(t, Returned(tasks[t].key, "failed", AnalyzedFiles(t)))
    /\ UNCHANGED <<installations, repositories, nextReviewId>>

\* Mutant of CatchProcess: the catch block only logs the error.
CatchProcess_LogsOnly(t) ==
    /\ tasks[t].pc = "catch_process"
    /\ SetTask(t, Returned(tasks[t].key, "failed", AnalyzedFiles(t)))
    /\ UNCHANGED store

\* The catch block of startReviewProcess.
FailedData(t) == [error |-> tasks[t].error, step |-> "failed"]

CatchProcess(t) ==
    /\ tasks[t].pc = "catch_process"
    /\ WriteStatus(t, "failed", FailedData(t))
    /\ SetTask(t, Returned(tasks[t].key, "failed", AnalyzedFiles(t)))
    /\ UNCHANGED StoreOnly

\* ------------------------------------------------------------------------
\* Installation events
\* ------------------------------------------------------------------------

\* The account and the repositories an installation payload carries.
AccountOf(installationId) ==
    IF installationId = 101
    THEN [login |-> "acme", type |-> "Organization"]
    ELSE [login |-> "other", type |-> "User"]

RepositoriesOf(installationId) ==
    IF installationId = 101
    THEN {[id |-> 1, full_name |-> "acme/widgets", private |-> FALSE]}
    ELSE {[id |-> 2, full_name |-> "other/tools", private |-> TRUE]}

\* Mutant of RecordInstallation: rows are created, not upserted.
RecordInstallation_CreatesRows(installationId, repos) ==
    /\ installations' =
           installations \cup
           {[installationId |-> installationId,
             accountLogin |-> AccountOf(installationId).login,
             accountType |-> AccountOf(installationId).type]}
    /\ repositories' =
           repositories \cup
           {[installationId |-> installationId, repoId |-> repo.id,
             fullName |-> repo.full_name, private |-> repo.private] :
                repo \in repos}
    /\ UNCHANGED <<reviews, fileChanges, reviewComments, nextReviewId, tasks,
                   others>>

\* recordInstallation: one transaction upserts the installation and every
\* repository of the payload.
RecordInstallation(installationId, repos) ==
    /\ installations' =
           {i \in installations : i.installationId # installationId} \cup
           {[installationId |-> installationId,
             accountLogin |-> AccountOf(installationId).login,
             accountType |-> AccountOf(installationId).type]}
    /\ repositories' =
           {r \in repositories :
                ~(r.installationId = installationId
                  /\ \E repo \in repos : repo.id = r.repoId)} \cup
           {[installationId |-> installationId, repoId |-> repo.id,
             fullName |-> repo.full_name, private |-> repo.private] :
                repo \in repos}
    /\ UNCHANGED <<reviews, fileChanges, reviewComments, nextReviewId, tasks,
                   others>>

\* Mutant of RemoveInstallation: the three statements run outside a
\* transaction, so the first two stay applied when the delete throws.
RemoveInstallation_NoTransaction(installationId) ==
    /\ reviews' = {IF r.installationId = installationId
                   THEN [r EXCEPT !.status = "cancelled"]
                   ELSE r : r \in reviews}
    /\ repositories' = {r \in repositories :
                            r.installationId # installationId}
    /\ installations' = {i \in installations :
                             i.installationId # installationId}
    /\ UNCHANGED <<fileChanges, reviewComments, nextReviewId, tasks, others>>

\* removeInstallation: one transaction; installation.delete throws when the
\* row is missing, which rolls the whole transaction back.
RemoveInstallation(installationId) ==
    IF \E i \in installations : i.installationId = installationId
    THEN /\ reviews' = {IF r.installationId = installationId
                        THEN [r EXCEPT !.status = "cancelled"]
                        ELSE r : r \in reviews}
         /\ repositories' = {r \in repositories :
                                 r.installationId # installationId}
         /\ installations' = {i \in installations :
                                  i.installationId # installationId}
         /\ UNCHANGED <<fileChanges, reviewComments, nextReviewId, tasks,
                        others>>
    ELSE UNCHANGED vars

\* ------------------------------------------------------------------------
\* Specifications
\* ------------------------------------------------------------------------

\* One step of delivery t.
TaskNext(t) ==
    \/ \E action \in QueueActions, key \in Keys : QueueReviewTx(t, action, key)
    \/ \E action \in QueueActions, key \in Keys :
           QueueReviewTxFails(t, action, key)
    \/ CatchHandler(t)
    \/ \E key \in Keys : CleanupReview(t, key)
    \/ \E action \in OtherActions, key \in Keys : IgnoreAction(t, action, key)
    \/ MissingPayload(t)
    \/ StatusFetching(t)
    \/ FindReview(t)
    \/ \E files \in FileLists : FetchFiles(t, files)
    \/ FetchFilesFails(t)
    \/ StatusAnalyzing(t)
    \/ CreateFileChange(t)
    \/ CreateComments(t)
    \/ CreateFails(t)
    \/ StatusProgress(t)
    \/ StatusReady(t)
    \/ CatchProcess(t)

InstallationNext ==
    \/ \E i \in Installations : RecordInstallation(i, RepositoriesOf(i))
    \/ \E i \in Installations : RemoveInstallation(i)

Next ==
    \/ \E t \in Tasks : TaskNext(t)
    \/ InstallationNext

\* Pull-request deliveries handled concurrently, with installation events.
Spec == Init /\ [][Next]_vars

\* Pull-request deliveries only, handled concurrently.
PullRequestNext == \E t \in Tasks : TaskNext(t)

SpecPR == Init /\ [][PullRequestNext]_vars

\* The steps of delivery t after its first: each is the continuation of an
\* awaited call.
Continue(t) ==
    \/ CatchHandler(t)
    \/ StatusFetching(t)
    \/ FindReview(t)
    \/ \E files \in FileLists : FetchFiles(t, files)
    \/ FetchFilesFails(t)
    \/ StatusAnalyzing(t)
    \/ CreateFileChange(t)
    \/ CreateComments(t)
    \/ CreateFails(t)
    \/ StatusProgress(t)
    \/ StatusReady(t)
    \/ CatchProcess(t)

\* Pull-request deliveries handled concurrently, where every awaited call
\* settles: the store answers and the fetch returns or throws.
SpecPRFair == SpecPR /\ \A t \in Tasks : WF_vars(Continue(t))

\* Pull-request deliveries handled one after the other (a handler starts
\* when no other is in flight), with installation events at any point.
Quiet(t) == \A u \in Tasks \ {t} : tasks[u].pc \in {"idle", "done"}

SequentialNext ==
    \/ \E t \in Tasks : Quiet(t) /\ TaskNext(t)
    \/ InstallationNext

SpecSeq == Init /\ [][SequentialNext]_vars

\* ------------------------------------------------------------------------
\* Properties
\* ------------------------------------------------------------------------

\* ------------------------------------------------------------------------
\* installation_repositories events
\* ------------------------------------------------------------------------

\* Repositories an installation_repositories payload names: the repository
\* of the installation under its current and an earlier name, and a second
\* repository of installation 101.
RepoWidgets == [id |-> 1, full_name |-> "acme/widgets", private |-> FALSE]

RepoWidgetsOld == [id |-> 1, full_name |-> "acme/widgets-old", private |-> FALSE]

RepoGadgets == [id |-> 3, full_name |-> "acme/gadgets", private |-> TRUE]

RepoTools == [id |-> 2, full_name |-> "other/tools", private |-> TRUE]

ChangeLists(installationId) ==
    IF installationId = 101
    THEN {<<RepoWidgetsOld>>, <<RepoGadgets, RepoWidgets>>}
    ELSE {<<RepoTools>>}

\* A payload field that holds an array, or is missing.
Field(items) == [present |-> TRUE, items |-> items]

Missing == [present |-> FALSE, items |-> <<>>]

\* The payloads delivered: the platform sends both lists, the one that does
\* not apply being empty; a payload may also come without the list that
\* does not apply.
RepositoryPayloads ==
    UNION {
      {[action |-> "added", installation |-> i,
        repositories_added |-> Field(list),
        repositories_removed |-> Field(<<>>)],
       [action |-> "removed", installation |-> i,
        repositories_added |-> Field(<<>>),
        repositories_removed |-> Field(list)],
       [action |-> "removed", installation |-> i,
        repositories_added |-> Missing,
        repositories_removed |-> Field(list)]} :
      i \in Installations, list \in UNION {ChangeLists(j) : j \in Installations}}

\* payload.repositories_added || payload.repositories_removed || []: an
\* array is truthy, the empty one too.
SelectedRepositories(payload) ==
    IF payload.repositories_added.present
    THEN payload.repositories_added.items
    ELSE IF payload.repositories_removed.present
    THEN payload.repositories_removed.items
    ELSE <<>>

\* 'repositories_' + payload.action
RepositoriesAction(action) ==
    IF action = "added" THEN "repositories_added" ELSE "repositories_removed"

RepositoryRow(installationId, repo) ==
    [installationId |-> installationId, repoId |-> repo.id,
     fullName |-> repo.full_name, private |-> repo.private]

\* The loop of prisma.repository.upsert calls.
RECURSIVE UpsertRepositories(_, _, _)
UpsertRepositories(rows, installationId, list) ==
    IF list = <<>> THEN rows
    ELSE UpsertRepositories(
             {r \in rows : ~(r.installationId = installationId
                             /\ r.repoId = Head(list).id)}
             \cup {RepositoryRow(installationId, Head(list))},
             installationId, Tail(list))

\* The loop of prisma.repository.delete calls: delete throws when the row is
\* missing, the catch block of handleRepositoryChanges logs the error and
\* the repositories that follow in the list are not looked at.
RECURSIVE DeleteRepositories(_, _, _)
DeleteRepositories(rows, installationId, list) ==
    IF list = <<>> THEN rows
    ELSE IF \E r \in rows : /\ r.installationId = installationId
                            /\ r.repoId = Head(list).id
    THEN DeleteRepositories(
             {r \in rows : ~(r.installationId = installationId
                             /\ r.repoId = Head(list).id)},
             installationId, Tail(list))
    ELSE rows

handleRepositoryChanges(rows, installationId, list, action) ==
    IF action = "repositories_added"
    THEN UpsertRepositories(rows, installationId, list)
    ELSE IF action = "repositories_removed"
    THEN DeleteRepositories(rows, installationId, list)
    ELSE rows

\* One installation_repositories delivery, from the dispatch of server.ts
\* through handleInstallation to the end of handleRepositoryChanges; the
\* loop of store calls is one step.  repoChange keeps the payload of the
\* last delivery and the parity of the number of deliveries.
RepositoriesEvent(payload) ==
    /\ repositories' =
           handleRepositoryChanges(repositories, payload.installation,
                                   SelectedRepositories(payload),
                                   RepositoriesAction(payload.action))
    /\ repoChange' = [pc |-> "done", payload |-> payload,
                      parity |-> IF repoChange.pc = "idle" THEN 0
                                 ELSE 1 - repoChange.parity]
    /\ UNCHANGED <<reviews, fileChanges, reviewComments, installations,
                   nextReviewId, tasks, serviceCall>>

InstallationEventsNext ==
    \/ InstallationNext
    \/ \E payload \in RepositoryPayloads : RepositoriesEvent(payload)

\* installation and installation_repositories events, one handler at a time.
SpecInst == Init /\ [][InstallationEventsNext]_vars

\* ------------------------------------------------------------------------
\* The WebhookHandler class
\* ------------------------------------------------------------------------

\* The class WebhookHandler has no file fetch and no analysis: queueReview
\* upserts the Review and simulateReviewProgress sets two timers that write
\* 'in_progress' and 'completed'.  Store calls are taken to succeed.

\* Actions of the pull_request deliveries.
PullRequestActions == {"opened", "synchronize", "reopened", "closed", "edited"}

\* The static methods the class defines.  A call this.name(...) of a name
\* that is not among them throws a TypeError.
WebhookHandlerMethods ==
    {"handelPullRequest", "queueReview", "cleanup", "handleInstallation",
     "recordInstallation", "removeInstallation", "handleRepositoryChanges",
     "simulateReviewProgress"}

\* Delivery t of a pull_request event and the timers it has set.  early holds
\* the later deliveries whose 2 s timer was already set when the 2 s timer
\* of this one fired: their 2 s timers expire before its 5 s timer.
HandlerTask(pc, action, key, reviewId) ==
    [pc |-> pc, action |-> action, key |-> key, reviewId |-> reviewId,
     early |-> {}]

\* reviewData of queueReview.
WebhookHandler_reviewData ==
    [pr_title |-> "title", pr_author |-> "author", pr_url |-> "url",
     head_sha |-> "head", base_sha |-> "base", changed_files |-> 0,
     additions |-> 0, deletions |-> 0]

\* prisma.review.upsert of queueReview: the update branch sets status,
\* reviewData and createdAt and leaves completedAt as it is.
WebhookHandler_upsert(rows, key, installationId) ==
    LET found == Matching(rows, key)
    IN  IF found # {}
        THEN LET old == CHOOSE r \in found : TRUE
                 new == [old EXCEPT !.status = "pending",
                                    !.reviewData = WebhookHandler_reviewData]
             IN  [rows |-> (rows \ {old}) \cup {new}, review |-> new,
                  created |-> FALSE]
        ELSE LET new == [id |-> nextReviewId, prNumber |-> key[1],
                         repoFullName |-> key[2],
                         installationId |-> installationId,
                         status |-> "pending",
                         reviewData |-> WebhookHandler_reviewData,
                         completedAt |-> "null"]
             IN  [rows |-> rows \cup {new}, review |-> new, created |-> TRUE]

\* cleanup: updateMany on the pair sets the status and nothing else.
WebhookHandler_cleanup(rows, key) ==
    {IF r \in Matching(rows, key) THEN [r EXCEPT !.status = "cancelled"]
     ELSE r : r \in rows}

\* handelPullRequest({ payload }): 'synchronize' queues the review and sets
\* the two timers, 'closed' cancels (and falls through to the default
\* branch, which logs), every other action is logged and ignored.
WebhookHandler_handelPullRequest(t, action, key) ==
    /\ Startable(t)
    /\ IF action = "synchronize"
       THEN LET up == WebhookHandler_upsert(reviews, key,
                                           InstallationOf(key[2]))
            IN  /\ reviews' = up.rows
                /\ nextReviewId' = IF up.created THEN nextReviewId + 1
                                   ELSE nextReviewId
                /\ tasks' = [tasks EXCEPT ![t] =
                                 HandlerTask("timer_2s", action, key,
                                             up.review.id)]
       ELSE IF action = "closed"
       THEN /\ reviews' = WebhookHandler_cleanup(reviews, key)
            /\ tasks' = [tasks EXCEPT ![t] =
                             HandlerTask("done", action, key, NoReview)]
            /\ UNCHANGED nextReviewId
       ELSE /\ tasks' = [tasks EXCEPT ![t] =
                             HandlerTask("done", action, key, NoReview)]
            /\ UNCHANGED <<reviews, nextReviewId>>
    /\ UNCHANGED <<fileChanges, reviewComments, installations, repositories,
                   others>>

\* prisma.review.update of a timer callback.
WebhookHandler_update(rows, reviewId, status, reviewData, completedAt) ==
    {IF r.id = reviewId
     THEN [r EXCEPT !.status = status, !.reviewData = reviewData,
                    !.completedAt = IF completedAt THEN "set" ELSE @]
     ELSE r : r \in rows}

\* The callback of setTimeout(..., 2000).  Timers of equal delay fire in the
\* order they were set, that is in the order of the deliveries.
WebhookHandler_timer2s(t) ==
    /\ tasks[t].pc = "timer_2s"
    /\ \A u \in Tasks : u < t => tasks[u].pc # "timer_2s"
    /\ reviews' = WebhookHandler_update(
                      reviews, tasks[t].reviewId, "in_progress",
                      [step |-> "analyzing_files", progress |-> 50], FALSE)
    /\ tasks' = [tasks EXCEPT
                     ![t].pc = "timer_5s",
                     ![t].early = {u \in Tasks : /\ u > t
                                                /\ tasks[u].pc = "timer_2s"}]
    /\ UNCHANGED <<fileChanges, reviewComments, installations, repositories,
                   nextReviewId, others>>

\* The callback of setTimeout(..., 5000); issues_found is
\* Math.floor(Math.random() * 5).
WebhookHandler_timer5s(t, issues_found) ==
    /\ tasks[t].pc = "timer_5s"
    /\ \A u \in Tasks : u < t => tasks[u].pc \notin {"timer_2s", "timer_5s"}
    /\ \A u \in tasks[t].early : tasks[u].pc # "timer_2s"
    /\ reviews' = WebhookHandler_update(
                      reviews, tasks[t].reviewId, "completed",
                      [step |-> "completed", progress |-> 100,
                       issues_found |-> issues_found], TRUE)
    /\ tasks' = [tasks EXCEPT ![t].pc = "done", ![t].early = {}]
    /\ UNCHANGED <<fileChanges, reviewComments, installations, repositories,
                   nextReviewId, others>>

\* The rows the installation handlers work on.
InstallationStore ==
    [installations |-> installations, repositories |-> repositories,
     reviews |-> reviews]

\* recordInstallation: one transaction upserts the installation and every
\* repository of the list.
WebhookHandler_recordInstallation(now, installationId, list) ==
    [now EXCEPT
        !.installations =
            {i \in @ : i.installationId # installationId} \cup
            {[installationId |-> installationId,
              accountLogin |-> AccountOf(installationId).login,
              accountType |-> AccountOf(installationId).type]},
        !.repositories = UpsertRepositories(@, installationId, list)]

\* removeInstallation: one transaction; installation.delete throws when the
\* row is missing, which rolls the transaction back.
WebhookHandler_removeInstallation(now, installationId) ==
    IF \E i \in now.installations : i.installationId = installationId
    THEN [now EXCEPT
             !.repositories =
                 {r \in @ : r.installationId # installationId},
             !.reviews =
                 {IF r.installationId = installationId
                  THEN [r EXCEPT !.status = "cancelled"] ELSE r : r \in @},
             !.installations =
                 {i \in @ : i.installationId # installationId}]
    ELSE now

\* An argument value: a string, or an array of repository objects.
StringValue(s) == [kind |-> "string", value |-> s]

ArrayValue(items) == [kind |-> "array", items |-> items]

\* String(array): the elements joined by ','; String(object) is
\* '[object Object]'.
RECURSIVE ArrayToString(_)
ArrayToString(items) ==
    IF items = <<>> THEN ""
    ELSE IF Len(items) = 1 THEN "[object Object]"
    ELSE "[object Object]," \o ArrayToString(Tail(items))

\* value == literal for a string literal: an array is converted to a string
\* first.
LooseEquals(value, literal) ==
    IF value.kind = "string" THEN value.value = literal
    ELSE ArrayToString(value.items) = literal

\* handleRepositoryChanges(installation, repositories, action), repos being
\* its second parameter and action its third.  A loop over a string takes its characters, which have no id: the store rejects
\* the first call and the catch block logs the error.
WebhookHandler_handleRepositoryChanges(rows, installationId, repos, action) ==
    IF LooseEquals(action, "repositories_added")
    THEN IF repos.kind = "array"
         THEN UpsertRepositories(rows, installationId, repos.items)
         ELSE rows
    ELSE IF LooseEquals(action, "repositories_removed")
    THEN IF repos.kind = "array"
         THEN DeleteRepositories(rows, installationId, repos.items)
         ELSE rows
    ELSE rows

\* handleInstallation({ action, installation, repositories = [] }): the
\* 'deleted' branch calls this.removeInstalation and the 'repositories_'
\* branch calls handleRepositoryChanges(installation, action, repositories);
\* the catch block logs what is thrown.
WebhookHandler_handleInstallation(action, installationId, list) ==
    LET now == InstallationStore
    IN  IF action = "created"
        THEN WebhookHandler_recordInstallation(now, installationId, list)
        ELSE IF action = "deleted"
        THEN IF "removeInstalation" \in WebhookHandlerMethods
             THEN WebhookHandler_removeInstallation(now, installationId)
             ELSE now
        ELSE IF action \in {"repositories_added", "repositories_removed"}
        THEN [now EXCEPT
                 !.repositories =
                     WebhookHandler_handleRepositoryChanges(
                         @, installationId, StringValue(action),
                         ArrayValue(list))]
        ELSE now

\* The installation payloads delivered: each installation with the list of
\* its repositories.
InstallationPayloads ==
    {[action |-> action, installation |-> i,
      repositories |-> Field(IF i = 101 THEN <<RepoWidgets>>
                             ELSE <<RepoTools>>)] :
        action \in {"created", "deleted", "suspend"}, i \in Installations}

\* The installation_repositories payloads delivered: those that name
\* repositories of the installation's own account.
OwnRepositoryPayloads ==
    {payload \in RepositoryPayloads :
        \/ payload.repositories_added.items
               \in ChangeLists(payload.installation)
        \/ payload.repositories_removed.items
               \in ChangeLists(payload.installation)}

\* What a handled delivery leaves in repoChange: the event and its payload.
Delivered(event, payload) ==
    [pc |-> "done", event |-> event, payload |-> payload]

\* webhooks.on('installation'): payload.repositories || [].
WebhookHandler_InstallationDelivery(payload) ==
    /\ LET after == WebhookHandler_handleInstallation(
                        payload.action, payload.installation,
                        IF payload.repositories.present
                        THEN payload.repositories.items ELSE <<>>)
       IN  /\ installations' = after.installations
           /\ repositories' = after.repositories
           /\ reviews' = after.reviews
    /\ repoChange' = Delivered("installation", payload)
    /\ UNCHANGED <<fileChanges, reviewComments, nextReviewId, tasks,
                   serviceCall>>

\* webhooks.on('installation_repositories').
WebhookHandler_RepositoriesDelivery(payload) ==
    /\ LET after == WebhookHandler_handleInstallation(
                        RepositoriesAction(payload.action),
                        payload.installation, SelectedRepositories(payload))
       IN  /\ installations' = after.installations
           /\ repositories' = after.repositories
           /\ reviews' = after.reviews
    /\ repoChange' = Delivered("installation_repositories", payload)
    /\ UNCHANGED <<fileChanges, reviewComments, nextReviewId, tasks,
                   serviceCall>>

WebhookHandlerNext ==
    \/ \E t \in Tasks, action \in PullRequestActions, key \in Keys :
           WebhookHandler_handelPullRequest(t, action, key)
    \/ \E t \in Tasks : WebhookHandler_timer2s(t)
    \/ \E t \in Tasks, issues_found \in 0..4 :
           WebhookHandler_timer5s(t, issues_found)
    \/ \E payload \in InstallationPayloads :
           WebhookHandler_InstallationDelivery(payload)
    \/ \E payload \in OwnRepositoryPayloads :
           WebhookHandler_RepositoriesDelivery(payload)

\* The events server.ts dispatches, handled by the class WebhookHandler.
SpecWebhookHandler == Init /\ [][WebhookHandlerNext]_vars

\* ------------------------------------------------------------------------
\* The analysis service and the progress computation on their own
\* ------------------------------------------------------------------------

\* Longest patch (in lines) a scan is run over.
MaxLines == 3

\* Longest file list the progress percentages are computed for; getPRFiles
\* asks for pages of PerPage files.
MaxFiles == 42

PerPage == 100

\* Lines of a patch: hunk headers declaring new start 1 and 12, a line that
\* starts with '@@' and has no '+<digits>', added lines (code, blank,
\* comment), a context line, a removed line and the empty string.
HunkAt1 == <<"@", "@", " ", "-", "1", " ", "+", "1", " ", "@", "@">>

HunkAt12 == <<"@", "@", " ", "-", "3", ",", "2", " ", "+", "1", "2", ",", "3", " ", "@", "@">>

HunkBad == <<"@", "@", " ", "b", "a", "d", " ", "@", "@">>

AddedCode == <<"+", "x">>

AddedBlank == <<"+">>

AddedComment == <<"+", "/", "/", "c">>

ContextLine == <<" ", "x">>

RemovedLine == <<"-", "x">>

EmptyLine == <<>>

PatchLines == {HunkAt1, HunkAt12, HunkBad, AddedCode, AddedBlank,
               AddedComment, ContextLine, RemovedLine, EmptyLine}

Patches == UNION {[1..n -> PatchLines] : n \in 0..MaxLines}

\* File names and statuses shouldReview is called with.
AppRs == <<"a", "p", "p", ".", "r", "s">>

ImagePng == <<"i", "m", "a", "g", "e", ".", "p", "n", "g">>

PhotoPNG == <<"P", "H", "O", "T", "O", ".", "P", "N", "G">>

VendorLibJs == <<"v", "e", "n", "d", "o", "r", "/", "l", "i", "b", ".", "j", "s">>

VendorDockerfile == <<"v", "e", "n", "d", "o", "r", "/", "D", "o", "c", "k", "e", "r", "f", "i", "l", "e">>

MinJs == <<"a", ".", "m", "i", "n", ".", "j", "s">>

DistEnv == <<"d", "i", "s", "t", "/", ".", "e", "n", "v">>

Dockerfile == <<"D", "o", "c", "k", "e", "r", "f", "i", "l", "e">>

DotEnv == <<".", "e", "n", "v">>

NotesTxt == <<"n", "o", "t", "e", "s", ".", "t", "x", "t">>

PackageJson == <<"p", "a", "c", "k", "a", "g", "e", ".", "j", "s", "o", "n">>

EslintrcJson == <<"w", "e", "b", "/", ".", "e", "s", "l", "i", "n", "t", "r", "c", ".", "j", "s", "o", "n">>

MainPY == <<"s", "r", "c", "/", "M", "a", "i", "n", ".", "P", "Y">>

Filenames == {AppRs, ImagePng, PhotoPNG, VendorLibJs, VendorDockerfile, MinJs,
              DistEnv, Dockerfile, DotEnv, NotesTxt, PackageJson, EslintrcJson,
              MainPY}

Statuses == {"added", "modified", "removed", "renamed"}

\* Most added lines of a patch of plain added lines that is scored.
MaxAdded == 25

\* Lines of the patches that are scored: an added line that opens a block
\* with a keyword, one that closes a block, one that opens six brackets,
\* one with a keyword inside a word, a context line with a bracket, and a
\* plain added line.
BlockOpen == <<"+", "i", "f", " ", "(", "x", ")", " ", "{">>

BlockClose == <<"+", "}">>

DeepOpen == <<"+", "[", "[", "[", "[", "[", "[">>

NotifyCall == <<"+", "n", "o", "t", "i", "f", "y", "(", ")">>

ContextOpen == <<" ", "{">>

ScoredLines == {BlockOpen, BlockClose, DeepOpen, NotifyCall, ContextOpen,
                AddedCode}

ScoredPatches ==
    UNION {[1..n -> ScoredLines] : n \in 0..MaxLines}
    \cup {[k \in 1..n |-> AddedCode] : n \in 0..MaxAdded}

\* Added lines, without their '+', that are checked for issues.
\* const password = "abc123"
ConstPassword == <<"c", "o", "n", "s", "t", " ", "p", "a", "s", "s", "w", "o", "r", "d", " ", "=", " ", "\"", "a", "b", "c", "1", "2", "3", "\"">>

\* token: 'x', secret: 'y'
TokenAndSecret == <<"t", "o", "k", "e", "n", ":", " ", "'", "x", "'", ",", " ", "s", "e", "c", "r", "e", "t", ":", " ", "'", "y", "'">>

\* PASSWORD="a" Api_Key="b" secret="c" token="d"
AllFour == <<"P", "A", "S", "S", "W", "O", "R", "D", "=", "\"", "a", "\"", " ", "A", "p", "i", "_", "K", "e", "y", "=", "\"", "b", "\"", " ", "s", "e", "c", "r", "e", "t", "=", "\"", "c", "\"", " ", "t", "o", "k", "e", "n", "=", "\"", "d", "\"">>

\* password = abc
PasswordUnquoted == <<"p", "a", "s", "s", "w", "o", "r", "d", " ", "=", " ", "a", "b", "c">>

\* '  '
BlankContent == <<" ", " ">>

\* ''
EmptyContent == <<>>

\*  // token = "x" TODO
CommentSecret == <<" ", "/", "/", " ", "t", "o", "k", "e", "n", " ", "=", " ", "\"", "x", "\"", " ", "T", "O", "D", "O">>

\* # password = "x"
HashSecret == <<"#", " ", "p", "a", "s", "s", "w", "o", "r", "d", " ", "=", " ", "\"", "x", "\"">>

\* /* TODO */
BlockComment == <<"/", "*", " ", "T", "O", "D", "O", " ", "*", "/">>

\* var password = "p" // TODO
VarTodo == <<"v", "a", "r", " ", "p", "a", "s", "s", "w", "o", "r", "d", " ", "=", " ", "\"", "p", "\"", " ", "/", "/", " ", "T", "O", "D", "O">>

\* print(x) # FIXME
PrintFixme == <<"p", "r", "i", "n", "t", "(", "x", ")", " ", "#", " ", "F", "I", "X", "M", "E">>

\* if (a == b)
LooseMiddle == <<"i", "f", " ", "(", "a", " ", "=", "=", " ", "b", ")">>

\* if (a === b)
StrictEquality == <<"i", "f", " ", "(", "a", " ", "=", "=", "=", " ", "b", ")">>

\* if (a !== b)
StrictInequality == <<"i", "f", " ", "(", "a", " ", "!", "=", "=", " ", "b", ")">>

\* a ==
LooseAtEnd == <<"a", " ", "=", "=">>

\* == b
LooseAtStart == <<"=", "=", " ", "b">>

\* console.log(eval("1"))
ConsoleEval == <<"c", "o", "n", "s", "o", "l", "e", ".", "l", "o", "g", "(", "e", "v", "a", "l", "(", "\"", "1", "\"", ")", ")">>

\* except:
BareExcept == <<"e", "x", "c", "e", "p", "t", ":">>

CheckedLines == {ConstPassword, TokenAndSecret, AllFour, PasswordUnquoted,
                 BlankContent, EmptyContent, CommentSecret, HashSecret,
                 BlockComment, VarTodo, PrintFixme, LooseMiddle,
                 StrictEquality, StrictInequality, LooseAtEnd, LooseAtStart,
                 ConsoleEval, BareExcept}

\* Languages of the files the lines are from, and their line numbers.
Languages == {"javascript", "typescript", "python", "go", "unknown"}

LineNumbers == {1, 12}

\* The calls to start from: a scan of a patch at its first line with the
\* counter at 0, a scope decision not yet taken, and the progress loop of a
\* list of `length` files after the 'analyzing_files' write of 30.
ServiceCalls ==
    {[op |-> "scan", lines |-> patch, i |-> 1, currentLine |-> 0,
      added |-> <<>>] : patch \in Patches}
    \cup {[op |-> "shouldReview", filename |-> filename, status |-> status,
           done |-> FALSE, result |-> FALSE] :
              filename \in Filenames, status \in Statuses}
    \cup {[op |-> "progress", length |-> length, analyzedCount |-> 0,
           progress |-> 30] : length \in 1..MaxFiles}
    \cup {[op |-> "getComplexityScore", patch |-> patch, done |-> FALSE,
           score |-> 0] : patch \in ScoredPatches}
    \cup {[op |-> "checkLineForIssues", line |-> line,
           lineNumber |-> lineNumber, language |-> language, done |-> FALSE,
           issues |-> <<>>] :
              line \in CheckedLines, lineNumber \in LineNumbers,
              language \in Languages}

InitService ==
    /\ reviews = {}
    /\ fileChanges = {}
    /\ reviewComments = {}
    /\ installations = {}
    /\ repositories = {}
    /\ nextReviewId = 1
    /\ tasks = [t \in Tasks |-> IdleTask]
    /\ repoChange = NoRepoChange
    /\ serviceCall \in ServiceCalls

\* One iteration of the loop of performBasicAnalysis.
ScanStep ==
    /\ serviceCall.op = "scan"
    /\ serviceCall.i <= Len(serviceCall.lines)
    /\ LET step == ScanLine(serviceCall.lines[serviceCall.i],
                            serviceCall.currentLine)
       IN  serviceCall' = [serviceCall EXCEPT
                               !.i = @ + 1,
                               !.currentLine = step.counter,
                               !.added = @ \o step.added]
    /\ UNCHANGED <<store, tasks, repoChange>>

\* fileAnalysisService.shouldReview(filename, status).
ShouldReviewCall ==
    /\ serviceCall.op = "shouldReview"
    /\ ~serviceCall.done
    /\ serviceCall' = [serviceCall EXCEPT
                           !.done = TRUE,
                           !.result = shouldReview(serviceCall.filename,
                                                   serviceCall.status)]
    /\ UNCHANGED <<store, tasks, repoChange>>

\* analyzedCount++ and the percentage of the next progress write.
ProgressStep ==
    /\ serviceCall.op = "progress"
    /\ serviceCall.analyzedCount < serviceCall.length
    /\ serviceCall' = [serviceCall EXCEPT
                           !.analyzedCount = @ + 1,
                           !.progress = Progress(serviceCall.analyzedCount + 1,
                                                 serviceCall.length)]
    /\ UNCHANGED <<store, tasks, repoChange>>

\* fileAnalysisService.getComplexityScore(patch).
ComplexityCall ==
    /\ serviceCall.op = "getComplexityScore"
    /\ ~serviceCall.done
    /\ serviceCall' = [serviceCall EXCEPT
                           !.done = TRUE,
                           !.score = getComplexityScore(serviceCall.patch)]
    /\ UNCHANGED <<store, tasks, repoChange>>

\* fileAnalysisService.checkLineForIssues(line, lineNumber, language), as
\* performBasicAnalysis calls it for an added line.
CheckLineCall ==
    /\ serviceCall.op = "checkLineForIssues"
    /\ ~serviceCall.done
    /\ serviceCall' = [serviceCall EXCEPT
                           !.done = TRUE,
                           !.issues = checkLineForIssues(serviceCall.line,
                                                         serviceCall.lineNumber,
                                                         serviceCall.language)]
    /\ UNCHANGED <<store, tasks, repoChange>>

ServiceNext ==
    \/ ScanStep
    \/ ShouldReviewCall
    \/ ProgressStep
    \/ ComplexityCall
    \/ CheckLineCall

\* The analysis service and the progress computation, each call on its own.
SpecService == InitService /\ [][ServiceNext]_vars

FileChangesOf(reviewId) == {f \in fileChanges : f.reviewId = reviewId}

CommentsOf(reviewId) == {c \in reviewComments : c.reviewId = reviewId}

InFlight(t) == tasks[t].pc \notin {"idle", "done"}

\* Delivery t queued a review, its run fetched the list, went over every
\* file of it and made its last write.
RanToEnd(t) ==
    /\ tasks[t].pc = "done"
    /\ \/ tasks[t].outcome = "ready"
       \/ tasks[t].outcome = "failed" /\ tasks[t].files # <<>>

\* The step is delivery t's commit of the re-queue transaction.
Requeues(t) == tasks[t].pc = "idle" /\ tasks'[t].pc = "status_fetching"

\* The rows one run over the fetched list files inserts.
RunFileChanges(reviewId, files, t) ==
    {FileChangeRow(reviewId, files[i], t) : i \in 1..Len(files)}

RunComments(reviewId, files, t) ==
    UNION {CommentRows(reviewId, files[i], t) : i \in 1..Len(files)}

\* Every row of the review was inserted by one and the same run.
RowsOfOneRun(reviewId) ==
    \E t \in Tasks :
        /\ \A f \in FileChangesOf(reviewId) : f.run = t
        /\ \A c \in CommentsOf(reviewId) : c.run = t

NoDuplicateFiles(reviewId) ==
    \A f, g \in FileChangesOf(reviewId) : f.filename = g.filename => f = g

\* C1: once two deliveries that queued the same pull request have both run
\* to the end, whatever the interleaving of their store calls, and no other
\* delivery for the pull request is in flight, the FileChange and
\* ReviewComment rows of its Review are those of one run: no row of the other
\* run is left and no file has two rows.
C1_TwoRunsLeaveOneRunsRows ==
    \A t, u \in Tasks :
        ( /\ t # u
          /\ RanToEnd(t)
          /\ RanToEnd(u)
          /\ tasks[t].key = tasks[u].key
          /\ \A v \in Tasks : InFlight(v) => tasks[v].key # tasks[t].key )
        => \A r \in Matching(reviews, tasks[t].key) :
               RowsOfOneRun(r.id) /\ NoDuplicateFiles(r.id)

\* C2: in every step the Review rows stay unique on (prNumber,
\* repoFullName), and a queue event for a pair that has a row takes that
\* row's id and adds no row.
C2_OneReviewPerPair ==
    [][ /\ \A r, q \in reviews' :
               (r.prNumber = q.prNumber /\ r.repoFullName = q.repoFullName)
               => r = q
        /\ \A t \in Tasks :
               (Requeues(t) /\ Matching(reviews, tasks'[t].key) # {})
               => /\ \E r \in Matching(reviews, tasks'[t].key) :
                         tasks'[t].reviewId = r.id
                  /\ {r.id : r \in reviews'} = {r.id : r \in reviews}
      ]_vars

\* A second queue event for a pair has taken the row of the first, whose
\* run is still in flight: one Review row, and one id handed out.
C2_Witness ==
    /\ Cardinality(reviews) = 1
    /\ nextReviewId = 2
    /\ \E t, u \in Tasks :
           /\ t # u
           /\ InFlight(t)
           /\ InFlight(u)
           /\ tasks[t].reviewId # NoReview
           /\ tasks[t].reviewId = tasks[u].reviewId

\* C3: the last write of a run in which the fetch and every file succeeded
\* leaves the Review in status 'completed'.
C3_SuccessfulRunEndsCompleted ==
    [][ \A t \in Tasks :
            ( /\ tasks[t].pc \in {"status_ready", "catch_process"}
              /\ tasks[t].error \in {"", NotAFunction}
              /\ tasks'[t].pc = "done" )
            => \E r \in reviews' :
                   r.id = tasks[t].reviewId /\ r.status = "completed"
      ]_vars

\* Deliveries t and u queued the same pull request one after the other, both
\* ran to the end, and no later delivery is for that pull request.
RanInSequence(u, t) ==
    /\ u < t
    /\ RanToEnd(u)
    /\ RanToEnd(t)
    /\ tasks[u].key = tasks[t].key
    /\ \A v \in Tasks : v > t => tasks[v].key # tasks[t].key

\* C4: when the same queue event is handled twice for one pull request, the
\* first handler returning before the second starts, one Review row is left
\* and its FileChange and ReviewComment rows are exactly the rows the second
\* run inserted.
C4_SecondRunReplacesFirst ==
    \A u, t \in Tasks :
        RanInSequence(u, t)
        => /\ Cardinality(Matching(reviews, tasks[t].key)) = 1
           /\ \A r \in Matching(reviews, tasks[t].key) :
                  /\ FileChangesOf(r.id) =
                         RunFileChanges(r.id, tasks[t].files, t)
                  /\ CommentsOf(r.id) = RunComments(r.id, tasks[t].files, t)

\* Two runs in sequence that both fetched files.
C4_Witness ==
    \E u, t \in Tasks :
        /\ RanInSequence(u, t)
        /\ tasks[u].files # <<>>
        /\ tasks[t].files # <<>>

\* C5: the step that re-queues a Review leaves it pending with none of its
\* ReviewComment rows and none of its FileChange rows, and leaves the rows
\* of every other Review as they were: the reset and both deletions appear
\* together.
C5_RequeueClearsTogether ==
    [][ \A t \in Tasks :
            Requeues(t)
            => LET id == tasks'[t].reviewId
               IN  /\ \E r \in reviews' : r.id = id /\ r.status = "pending"
                   /\ {f \in fileChanges' : f.reviewId = id} = {}
                   /\ {c \in reviewComments' : c.reviewId = id} = {}
                   /\ {f \in fileChanges' : f.reviewId # id} =
                          {f \in fileChanges : f.reviewId # id}
                   /\ {c \in reviewComments' : c.reviewId # id} =
                          {c \in reviewComments : c.reviewId # id}
      ]_vars

\* A re-queue has just removed rows: the run of u inserted the row of its
\* first file, and after the commit of t the Review has no row.
C5_Witness ==
    \E t, u \in Tasks :
        /\ tasks[t].pc = "status_fetching"
        /\ tasks[u].pc = "create_comments"
        /\ tasks[u].reviewId = tasks[t].reviewId
        /\ FileChangesOf(tasks[t].reviewId) = {}
        /\ \E r \in reviews : r.id = tasks[t].reviewId /\ r.status = "pending"

\* C6: a run in which the fetch or a file raised an error ends with the
\* write that leaves the Review 'failed' with the error message in its
\* metadata, and every handlePullRequest call that ends has returned
\* normally.
C6_ErrorEndsFailed ==
    [][ \A t \in Tasks :
            /\ (tasks[t].pc = "catch_process" /\ tasks'[t] # tasks[t])
               => /\ tasks'[t].pc = "done"
                  /\ \E r \in reviews' :
                         /\ r.id = tasks[t].reviewId
                         /\ r.status = "failed"
                         /\ "error" \in DOMAIN r.reviewData
                         /\ r.reviewData.error = tasks[t].error
            /\ tasks'[t].pc = "done" => tasks'[t].result = "returned"
      ]_vars

\* A failed fetch has been recorded and its handler has returned.
C6_Witness ==
    \E t \in Tasks :
        /\ tasks[t].pc = "done"
        /\ tasks[t].outcome = "failed"
        /\ tasks[t].result = "returned"
        /\ \E r \in Matching(reviews, tasks[t].key) :
               /\ r.status = "failed"
               /\ r.reviewData = [error |-> "Failed to fetch PR files",
                                  step |-> "failed"]

\* The step is delivery t's handling of a 'closed' event.
Cancels(t) ==
    /\ tasks[t].pc = "idle"
    /\ tasks'[t].pc = "done"
    /\ tasks'[t].outcome = "cancelled"

\* C7: a 'closed' event sets the status of every Review of its pair to
\* 'cancelled' whatever the status was, and changes nothing else: no other
\* field of those rows, no other Review, no FileChange and no ReviewComment
\* row.
C7_ClosedOnlyCancels ==
    [][ \A t \in Tasks :
            Cancels(t)
            => /\ \A r \in reviews : \E q \in reviews' :
                      /\ q.id = r.id
                      /\ q.completedAt = r.completedAt
                      /\ q.reviewData = r.reviewData
                      /\ q.installationId = r.installationId
                      /\ q.status = IF r \in Matching(reviews, tasks'[t].key)
                                    THEN "cancelled" ELSE r.status
               /\ Cardinality(reviews') = Cardinality(reviews)
               /\ fileChanges' = fileChanges
               /\ reviewComments' = reviewComments
      ]_vars

\* A Review was cancelled while its run was analysing: the metadata of the
\* run's last write is still there, completedAt is unset, and the rows the
\* run inserted are still there.
C7_Witness ==
    \E r \in reviews :
        /\ r.status = "cancelled"
        /\ "step" \in DOMAIN r.reviewData
        /\ r.reviewData.step = "analyzing_files"
        /\ r.completedAt = "null"
        /\ FileChangesOf(r.id) # {}

Terminal == {"completed", "failed", "cancelled"}

\* C8: a Review in a terminal status keeps that status in every step that
\* is not a re-queue of it.
C8_TerminalStatusIsKept ==
    [][ \A r \in reviews :
            r.status \in Terminal
            => \/ \E q \in reviews' : q.id = r.id /\ q.status = r.status
               \/ \E t \in Tasks : Requeues(t) /\ tasks'[t].reviewId = r.id
      ]_vars

StatusWrites == {"status_fetching", "status_analyzing", "status_progress",
                 "status_ready"}

\* C9: handling a 'closed' event changes no handler in flight, and a run in
\* flight goes on whatever the Review's status is: it has a next step, its
\* inserts add their rows, and each of its status writes is applied, so the
\* status after any write is the one that write carries.
C9_CancellationIsAdvisory ==
    /\ [](\A t \in Tasks : InFlight(t) => ENABLED TaskNext(t))
    /\ [][ \A t \in Tasks :
               /\ Cancels(t)
                  => /\ \A u \in Tasks \ {t} : tasks'[u] = tasks[u]
                     /\ \A r \in Matching(reviews', tasks'[t].key) :
                            r.status = "cancelled"
               /\ (tasks[t].pc \in StatusWrites /\ tasks'[t] # tasks[t])
                  => \E r \in reviews' : /\ r.id = tasks[t].reviewId
                                         /\ r.status = "in_progress"
               /\ (tasks[t].pc = "catch_process" /\ tasks'[t] # tasks[t])
                  => \E r \in reviews' : /\ r.id = tasks[t].reviewId
                                         /\ r.status = "failed"
               /\ (tasks[t].pc = "create_file"
                   /\ tasks'[t].pc \in {"create_comments", "status_progress"})
                  => FileChangeRow(tasks[t].reviewId, CurrentFile(t), t)
                         \in fileChanges'
               /\ (tasks[t].pc = "create_comments"
                   /\ tasks'[t].pc = "status_progress")
                  => CommentRows(tasks[t].reviewId, CurrentFile(t), t)
                         \subseteq reviewComments'
         ]_vars

\* The run of t was in flight when the later delivery u cancelled its
\* Review; the run went on and its write put the Review back in_progress.
C9_Witness ==
    \E t, u \in Tasks :
        /\ t < u
        /\ tasks[u].pc = "done"
        /\ tasks[u].outcome = "cancelled"
        /\ tasks[u].key = tasks[t].key
        /\ tasks[t].pc = "create_file"
        /\ \E r \in reviews : /\ r.id = tasks[t].reviewId
                              /\ r.status = "in_progress"

\* C10: an installation 'deleted' event applies all of its three effects or
\* none: when the Installation row exists, every Review of the installation
\* is cancelled, every Repository row of it is deleted and the Installation
\* row is deleted; when it does not exist, nothing in the store changes.
C10_RemoveInstallationAllOrNone ==
    [][ \A i \in Installations :
            RemoveInstallation(i)
            => IF \E row \in installations : row.installationId = i
               THEN /\ \A row \in installations' : row.installationId # i
                    /\ \A r \in repositories' : r.installationId # i
                    /\ \A r \in reviews' :
                           r.installationId = i => r.status = "cancelled"
                    /\ {r.id : r \in reviews'} = {r.id : r \in reviews}
               ELSE UNCHANGED store
      ]_vars

\* The installation of a Review whose run is in flight was deleted: the
\* Review is cancelled and the installation has no row and no repository.
C10_Witness ==
    \E t \in Tasks : \E r \in reviews :
        /\ InFlight(t)
        /\ r.id = tasks[t].reviewId
        /\ r.status = "cancelled"
        /\ \A row \in installations : row.installationId # r.installationId
        /\ \A row \in repositories : row.installationId # r.installationId
        /\ installations # {}

\* Delivery t is the only one that queued its pull request; the others for
\* the pair, if any, were 'closed' events.
OnlyRun(t) ==
    \A u \in Tasks \ {t} :
        tasks[u].key = tasks[t].key => tasks[u].outcome = "cancelled"

\* The issues the analysis detects in a file: those of its patch when the
\* file is in scope and has one.
IssueCount(file) ==
    IF shouldReview(file.filename, file.status) /\ file.patch # <<>>
    THEN Len(performBasicAnalysis(file.patch, getLanguage(file.filename)))
    ELSE 0

\* C11: after the run of the only queue event for a pull request went over
\* its fetched list, the Review has exactly one FileChange row per file of
\* the list, with shouldReview equal to the scope decision for the file, and
\* exactly as many ReviewComment rows for a file as issues were detected in
\* it: none for a file out of scope or without a patch.
C11_OneRowPerFileAndIssue ==
    \A t \in Tasks :
        (RanToEnd(t) /\ OnlyRun(t))
        => \A r \in Matching(reviews, tasks[t].key) :
               LET files == tasks[t].files
               IN  /\ Cardinality(FileChangesOf(r.id)) = Len(files)
                   /\ \A c \in CommentsOf(r.id) :
                          \E i \in 1..Len(files) : c.fileName = files[i]
                   /\ \A i \in 1..Len(files) :
                          LET file == File(files[i])
                              rows == {f \in FileChangesOf(r.id) :
                                           f.filename = file.filename}
                              comments == {c \in CommentsOf(r.id) :
                                               c.fileName = file.filename}
                          IN  /\ Cardinality(rows) = 1
                              /\ \A f \in rows :
                                     f.shouldReview =
                                         shouldReview(file.filename,
                                                      file.status)
                              /\ Cardinality(comments) = IssueCount(file)

\* The run over a.js and b.png ended: a.js is in scope and has its one
\* comment, b.png has a row out of scope and no comment.
C11_Witness ==
    \E t \in Tasks :
        /\ RanToEnd(t)
        /\ OnlyRun(t)
        /\ tasks[t].files = <<FileA.filename, FileB.filename>>
        /\ \E r \in Matching(reviews, tasks[t].key) :
               /\ \E f \in FileChangesOf(r.id) :
                      f.filename = FileB.filename /\ ~f.shouldReview
               /\ \E f \in FileChangesOf(r.id) :
                      f.filename = FileA.filename /\ f.shouldReview
               /\ Cardinality(CommentsOf(r.id)) = 1

\* No other delivery is for the pull request of delivery t.
LoneRun(t) == \A u \in Tasks \ {t} : tasks[u].key # tasks[t].key

\* The pair a step of delivery t is about.
KeyOfStep(t) == IF tasks[t].pc = "idle" THEN tasks'[t].key ELSE tasks[t].key

\* C12: a step of a delivery for one (prNumber, repoFullName) pair changes
\* no Review of another pair and no FileChange or ReviewComment row of such a
\* Review; and when the only delivery for a pair has run to the end, the
\* pair's Review and rows are those of that run alone, whatever deliveries
\* for other pairs did in between.
C12_KeysDoNotInterfere ==
    /\ [](\A t \in Tasks :
              (RanToEnd(t) /\ LoneRun(t))
              => \A r \in Matching(reviews, tasks[t].key) :
                     /\ r.status = IF tasks[t].outcome = "ready"
                                    THEN ReadyStatus ELSE "failed"
                     /\ "step" \in DOMAIN r.reviewData
                     /\ r.reviewData.step =
                            IF tasks[t].outcome = "ready"
                            THEN "ready_for_ai_review" ELSE "failed"
                     /\ FileChangesOf(r.id) =
                            RunFileChanges(r.id, tasks[t].files, t)
                     /\ CommentsOf(r.id) =
                            RunComments(r.id, tasks[t].files, t))
    /\ [][ \A t \in Tasks :
               tasks'[t] # tasks[t]
               => LET key == KeyOfStep(t)
                      ids == {r.id : r \in Matching(reviews', key)}
                  IN  /\ reviews' \ Matching(reviews', key) =
                             reviews \ Matching(reviews, key)
                      /\ {f \in fileChanges' : f.reviewId \notin ids} =
                             {f \in fileChanges : f.reviewId \notin ids}
                      /\ {c \in reviewComments' : c.reviewId \notin ids} =
                             {c \in reviewComments : c.reviewId \notin ids}
         ]_vars

\* Two pull requests were handled in parallel and each Review has the rows
\* of its own run.
C12_Witness ==
    \E t, u \in Tasks :
        /\ tasks[t].key # tasks[u].key
        /\ RanToEnd(t)
        /\ RanToEnd(u)
        /\ tasks[t].files # <<>>
        /\ tasks[u].files # <<>>
        /\ \A r \in reviews : FileChangesOf(r.id) # {}

\* C13: in the progress loop the percentage written after a file is strictly
\* greater than the one written after the file before it, for every length
\* of the file list.
C13_ProgressStrictlyIncreases ==
    [][ ( /\ serviceCall.op = "progress"
          /\ serviceCall.analyzedCount >= 1
          /\ serviceCall' # serviceCall )
        => serviceCall'.progress > serviceCall.progress
      ]_vars

\* The scan has gone over every line of its patch.
ScanDone == serviceCall.op = "scan" /\ serviceCall.i > Len(serviceCall.lines)

GoodHeaders == {HunkAt1, HunkAt12}

\* The new-file start line a header declares, read off the header.
DeclaredStart(header) == IF header = HunkAt1 THEN 1 ELSE 12

IsAdded(line) == Len(line) >= 1 /\ line[1] = "+"

\* The patch is one hunk: a header and then added lines only.
SingleHunk(lines) ==
    /\ Len(lines) >= 1
    /\ lines[1] \in GoodHeaders
    /\ \A i \in 2..Len(lines) : IsAdded(lines[i])

\* C16: over a patch that is one hunk declaring new start N followed by k
\* added lines and nothing else, the scan visits exactly those k lines, in
\* order, numbered N, N+1, ..., N+k-1, blank and comment lines included.
C16_SingleHunkNumbering ==
    (ScanDone /\ SingleHunk(serviceCall.lines))
    => LET lines == serviceCall.lines
           N == DeclaredStart(lines[1])
           k == Len(lines) - 1
       IN  /\ Len(serviceCall.added) = k
           /\ \A j \in 1..k :
                  /\ serviceCall.added[j].line = N + j - 1
                  /\ <<"+">> \o serviceCall.added[j].content = lines[j + 1]

\* The hunk declaring start 12 with a blank and a comment line was scanned:
\* the lines are numbered 12 and 13.
C16_Witness ==
    /\ ScanDone
    /\ serviceCall.lines = <<HunkAt12, AddedBlank, AddedComment>>
    /\ Len(serviceCall.added) = 2
    /\ serviceCall.added[1].line = 12
    /\ serviceCall.added[2].line = 13

\* The patch is made of hunks: it starts with a header, every header
\* declares its start, and every other line is an added, context or removed
\* line.
WellFormed(lines) ==
    /\ Len(lines) >= 1
    /\ lines[1] \in GoodHeaders
    /\ \A i \in 1..Len(lines) : lines[i] \notin {HunkBad, EmptyLine}

\* The positions in the new version of the file of the added lines of a
\* patch, from line i on, pos being the position of the last line of the
\* new version seen: added and context lines are lines of the new version,
\* removed lines are not.
RECURSIVE NewPositions(_, _, _)
NewPositions(lines, i, pos) ==
    IF i > Len(lines) THEN <<>>
    ELSE IF lines[i] \in GoodHeaders
    THEN NewPositions(lines, i + 1, DeclaredStart(lines[i]) - 1)
    ELSE IF IsAdded(lines[i])
    THEN <<pos + 1>> \o NewPositions(lines, i + 1, pos + 1)
    ELSE IF lines[i] = ContextLine
    THEN NewPositions(lines, i + 1, pos + 1)
    ELSE NewPositions(lines, i + 1, pos)

\* C17: over every patch made of hunks, with or without context lines, the
\* number the scan gives an added line is the line's position in the new
\* version of the file.
C17_NumbersArePositions ==
    (ScanDone /\ WellFormed(serviceCall.lines))
    => LET positions == NewPositions(serviceCall.lines, 1, 0)
       IN  /\ Len(serviceCall.added) = Len(positions)
           /\ \A j \in 1..Len(positions) :
                  serviceCall.added[j].line = positions[j]

\* C18: an iteration of the scan changes the counter and the output as
\* follows and in no other way: a header sets the counter to its declared
\* start minus one and emits nothing; an added line adds one to the counter
\* and is emitted with the new value and its content; any other line leaves
\* both as they were.
C18_OnlyHeaderAndAddedMoveCounter ==
    [][ ( /\ serviceCall.op = "scan"
          /\ serviceCall' # serviceCall )
        => LET line == serviceCall.lines[serviceCall.i]
           IN  /\ serviceCall'.i = serviceCall.i + 1
               /\ serviceCall'.lines = serviceCall.lines
               /\ IF line \in GoodHeaders
                  THEN /\ serviceCall'.currentLine = DeclaredStart(line) - 1
                       /\ serviceCall'.added = serviceCall.added
                  ELSE IF IsAdded(line)
                  THEN /\ serviceCall'.currentLine =
                              serviceCall.currentLine + 1
                       /\ serviceCall'.added =
                              Append(serviceCall.added,
                                     [line |-> serviceCall.currentLine + 1,
                                      content |-> Tail(line)])
                  ELSE /\ serviceCall'.currentLine = serviceCall.currentLine
                       /\ serviceCall'.added = serviceCall.added
      ]_vars

\* A context line and a removed line stood between a header and an added
\* line: the added line has the header's declared start.
C18_Witness ==
    /\ ScanDone
    /\ \E other \in {ContextLine, RemovedLine} :
           serviceCall.lines = <<HunkAt12, other, AddedCode>>
    /\ serviceCall.added = <<[line |-> 12, content |-> Tail(AddedCode)]>>

\* C19: at a line that starts with '@@' and has no '+<digits>' the scan goes
\* on to the next line with the counter and the output as they were, so the
\* added lines that follow are numbered on from the earlier value.
C19_BadHeaderKeepsCounter ==
    /\ [](( /\ serviceCall.op = "scan"
            /\ serviceCall.i <= Len(serviceCall.lines)
            /\ serviceCall.lines[serviceCall.i] = HunkBad )
          => ENABLED ScanStep)
    /\ [][ ( /\ serviceCall.op = "scan"
             /\ serviceCall' # serviceCall
             /\ serviceCall.lines[serviceCall.i] = HunkBad )
           => /\ serviceCall'.i = serviceCall.i + 1
              /\ serviceCall'.currentLine = serviceCall.currentLine
              /\ serviceCall'.added = serviceCall.added
         ]_vars

\* A header without a start stood between two added lines: the second is
\* numbered on from the first, 1 and then 2.
C19_Witness ==
    /\ ScanDone
    /\ serviceCall.lines = <<AddedCode, HunkBad, AddedCode>>
    /\ serviceCall.added[1].line = 1
    /\ serviceCall.added[2].line = 2

\* File names with a binary extension, and file names the deny-list matches.
BinaryNames == {ImagePng, PhotoPNG}

DeniedNames == {VendorLibJs, VendorDockerfile, MinJs, DistEnv}

\* C20: shouldReview is false for a removed file, for a file with a binary
\* extension and for a file on the deny-list, whatever else holds of the
\* file: a supported extension, a config-file name or a leading dot do not
\* bring it back in scope.
C20_ExclusionsComeFirst ==
    ( /\ serviceCall.op = "shouldReview"
      /\ serviceCall.done
      /\ \/ serviceCall.status = "removed"
         \/ serviceCall.filename \in BinaryNames
         \/ serviceCall.filename \in DeniedNames )
    => serviceCall.result = FALSE

\* The decision for a config file under vendor/ was taken: out of scope.
C20_Witness ==
    /\ serviceCall.op = "shouldReview"
    /\ serviceCall.done
    /\ serviceCall.filename = VendorDockerfile
    /\ serviceCall.status = "modified"
    /\ serviceCall.result = FALSE

\* File names that pass the exclusions: with a supported extension, with no
\* extension, with a recognized config-file name, with a basename that
\* begins with '.', and with none of these.
SupportedNames == {AppRs, MainPY}

NoExtensionNames == {Dockerfile, DotEnv}

ConfigNames == {Dockerfile, PackageJson}

DotNames == {DotEnv, EslintrcJson}

OrdinaryNames == {NotesTxt}

\* C21: for a file that is not removed, not binary and not on the deny-list,
\* shouldReview is true when the extension is supported, and otherwise true
\* exactly when the file has no extension, or its basename is a recognized
\* config-file name, or its basename begins with '.'.
C21_InScopeAfterExclusions ==
    ( /\ serviceCall.op = "shouldReview"
      /\ serviceCall.done
      /\ serviceCall.status # "removed"
      /\ serviceCall.filename \notin BinaryNames \cup DeniedNames )
    => /\ serviceCall.filename \in
              SupportedNames \cup NoExtensionNames \cup ConfigNames
                  \cup DotNames \cup OrdinaryNames
       /\ serviceCall.filename \in SupportedNames => serviceCall.result = TRUE
       /\ serviceCall.filename \notin SupportedNames =>
              ( serviceCall.result = TRUE
                <=> serviceCall.filename \in
                        NoExtensionNames \cup ConfigNames \cup DotNames )

\* The decision for an added web/.eslintrc.json was taken: in scope, by its
\* leading dot alone.
C21_Witness ==
    /\ serviceCall.op = "shouldReview"
    /\ serviceCall.done
    /\ serviceCall.filename = EslintrcJson
    /\ serviceCall.status = "added"
    /\ serviceCall.result = TRUE

\* Opening brackets and keyword occurrences minus closing brackets of the
\* scored lines: 'if (x) {' opens three and closes one, 'notify()' holds
\* "if", opens one bracket and closes one.
NetOpened(line) ==
    CASE line = BlockOpen -> 2
      [] line = BlockClose -> -1
      [] line = DeepOpen -> 6
      [] line = NotifyCall -> 1
      [] OTHER -> 0

AddedUpTo(patch, n) == {i \in 1..n : patch[i][1] = "+"}

\* The running sum after the first n lines of the patch.
RECURSIVE RunningSum(_, _)
RunningSum(patch, n) ==
    IF n = 0 THEN 0
    ELSE RunningSum(patch, n - 1)
         + (IF n \in AddedUpTo(patch, n) THEN NetOpened(patch[n]) ELSE 0)

\* C22: getComplexityScore returns an integer of 0..10 that equals
\* min(10, floor(addedLines / 10) + maxNestingDepth), where addedLines
\* counts the lines prefixed '+' and maxNestingDepth is the largest value,
\* floored at 0, of the running sum over the added lines of opening brackets
\* and keyword occurrences minus closing brackets; 25 added lines with no
\* bracket and no keyword score 2.
C22_ComplexityScore ==
    (serviceCall.op = "getComplexityScore" /\ serviceCall.done) =>
        LET patch == serviceCall.patch
            addedLines == Cardinality(AddedUpTo(patch, Len(patch)))
            maxNestingDepth ==
                CHOOSE d \in {RunningSum(patch, n) : n \in 0..Len(patch)} :
                    \A n \in 0..Len(patch) : RunningSum(patch, n) <= d
            sum == (addedLines \div 10) + maxNestingDepth
        IN  /\ serviceCall.score \in 0..10
            /\ serviceCall.score = IF sum <= 10 THEN sum ELSE 10
            /\ patch = [k \in 1..25 |-> AddedCode] => serviceCall.score = 2

\* A block was opened and closed again: the score is the depth reached
\* inside the block, not the depth at the end.
C22_Witness ==
    /\ serviceCall.op = "getComplexityScore"
    /\ serviceCall.done
    /\ serviceCall.patch = <<BlockOpen, AddedCode, BlockClose>>
    /\ serviceCall.score = 2

LineChecked == serviceCall.op = "checkLineForIssues" /\ serviceCall.done

\* The checked lines that are blank after trimming or start, after
\* trimming, with '//' or '#'.
SkippedLines == {BlankContent, EmptyContent, CommentSecret, HashSecret}

\* How many of the four secret patterns a checked line matches.
SecretsIn(line) ==
    CASE line = ConstPassword -> 1
      [] line = TokenAndSecret -> 2
      [] line = AllFour -> 4
      [] line = VarTodo -> 1
      [] OTHER -> 0

IssuesWhere(issues, Test(_)) == {i \in 1..Len(issues) : Test(issues[i])}

IsCredentialIssue(issue) == issue.rule = "no-hardcoded-credentials"

\* C23: the four secret patterns are evaluated independently on a line that
\* is not skipped: a line that matches k of them yields exactly k issues of
\* rule 'no-hardcoded-credentials', each critical and of type security, and
\* the line `const password = "abc123"` yields one issue in total.
C23_SecretPatternsIndependent ==
    (LineChecked /\ serviceCall.line \notin SkippedLines) =>
        LET issues == serviceCall.issues
            credentials == IssuesWhere(issues, IsCredentialIssue)
        IN  /\ Cardinality(credentials) = SecretsIn(serviceCall.line)
            /\ \A i \in credentials :
                   /\ issues[i].severity = "critical"
                   /\ issues[i].type = "security"
                   /\ issues[i].line = serviceCall.lineNumber
            /\ \A i \in 1..Len(issues) :
                   issues[i].severity = "critical" => i \in credentials
            /\ serviceCall.line = ConstPassword => Len(issues) = 1

\* A line with a quoted token and a quoted secret was checked: two
\* credential issues.
C23_Witness ==
    /\ LineChecked
    /\ serviceCall.line = TokenAndSecret
    /\ Len(serviceCall.issues) = 2
    /\ \A i \in 1..2 : serviceCall.issues[i].rule = "no-hardcoded-credentials"

\* C24: a line that is blank after trimming, or whose trimmed text starts
\* with a comment marker ('//' or '#'), yields no issue in any language:
\* neither the secret rule nor the TODO/FIXME/HACK rule nor a rule of the
\* language is evaluated on it.
C24_BlankAndCommentLinesSkipped ==
    (LineChecked /\ serviceCall.line \in SkippedLines) =>
        serviceCall.issues = <<>>

\* An indented '//' comment that holds a quoted token and a TODO was checked
\* as a line of a JavaScript file.
C24_Witness ==
    /\ LineChecked
    /\ serviceCall.line = CommentSecret
    /\ serviceCall.language = "javascript"
    /\ serviceCall.issues = <<>>

CommonRules == {"no-hardcoded-credentials", "no-todo-comments"}

JavaScriptRules == {"no-console", "strict-equality", "no-var", "no-eval"}

PythonRules == {"no-print", "specific-exceptions"}

RulesOf(issues) == [i \in 1..Len(issues) |-> issues[i].rule]

\* The rules a checked line breaks: of the common rules, of the JavaScript
\* rules and of the Python rules. The two lines with '==' at their very
\* start or end are left to C26.
CommonRulesOf(line) ==
    CASE line = ConstPassword -> <<"no-hardcoded-credentials">>
      [] line = TokenAndSecret ->
             <<"no-hardcoded-credentials", "no-hardcoded-credentials">>
      [] line = AllFour ->
             <<"no-hardcoded-credentials", "no-hardcoded-credentials",
               "no-hardcoded-credentials", "no-hardcoded-credentials">>
      [] line = BlockComment -> <<"no-todo-comments">>
      [] line = VarTodo -> <<"no-hardcoded-credentials", "no-todo-comments">>
      [] line = PrintFixme -> <<"no-todo-comments">>
      [] OTHER -> <<>>

JavaScriptRulesOf(line) ==
    CASE line = VarTodo -> <<"no-var">>
      [] line = LooseMiddle -> <<"strict-equality">>
      [] line = ConsoleEval -> <<"no-console", "no-eval">>
      [] OTHER -> <<>>

PythonRulesOf(line) ==
    CASE line = PrintFixme -> <<"no-print">>
      [] line = BareExcept -> <<"specific-exceptions">>
      [] OTHER -> <<>>

\* C25: for a line that is not skipped the issues of the common rules come
\* before the issues of the rules of the language; JavaScript and
\* TypeScript get the JavaScript rules, Python gets the Python rules, and
\* any other language, 'unknown' included, gets the issues of the common
\* rules and no others.
C25_CommonRulesFirstThenLanguage ==
    (LineChecked /\ serviceCall.line \notin SkippedLines) =>
        LET rules == RulesOf(serviceCall.issues)
            line == serviceCall.line
            language == serviceCall.language
            common == {i \in 1..Len(rules) : rules[i] \in CommonRules}
        IN  /\ \A i \in common : \A j \in 1..i : j \in common
            /\ [i \in 1..Cardinality(common) |-> rules[i]] = CommonRulesOf(line)
            /\ \A i \in (1..Len(rules)) \ common :
                   rules[i] \in
                       CASE language \in {"javascript", "typescript"} ->
                                JavaScriptRules
                         [] language = "python" -> PythonRules
                         [] OTHER -> {}
            /\ (language \in {"javascript", "typescript"}
                    /\ line \notin {LooseAtEnd, LooseAtStart})
                   => rules = CommonRulesOf(line) \o JavaScriptRulesOf(line)
            /\ language = "python"
                   => rules = CommonRulesOf(line) \o PythonRulesOf(line)
            /\ language \notin {"javascript", "typescript", "python"}
                   => rules = CommonRulesOf(line)

\* A line with a quoted password, a TODO and a var declaration was checked
\* as a line of a TypeScript file: the credential, the TODO, then no-var.
C25_Witness ==
    /\ LineChecked
    /\ serviceCall.line = VarTodo
    /\ serviceCall.language = "typescript"
    /\ RulesOf(serviceCall.issues)
           = <<"no-hardcoded-credentials", "no-todo-comments", "no-var">>

\* The checked lines that hold a '==' that is not part of '===' or '!=='.
LooseEqualityLines == {LooseMiddle, LooseAtEnd, LooseAtStart}

\* C26: in a JavaScript or TypeScript file a line that is not skipped yields
\* a medium/quality 'strict-equality' issue exactly when it holds a '=='
\* that is not part of '===' or '!==', wherever in the line that '==' is,
\* the very start and the very end of the line included.
C26_LooseEqualityAnywhere ==
    ( /\ LineChecked
      /\ serviceCall.language \in {"javascript", "typescript"}
      /\ serviceCall.line \notin SkippedLines )
    => ( serviceCall.line \in LooseEqualityLines
         <=> \E i \in 1..Len(serviceCall.issues) :
                 /\ serviceCall.issues[i].rule = "strict-equality"
                 /\ serviceCall.issues[i].severity = "medium"
                 /\ serviceCall.issues[i].type = "quality" )

\* The installation has a Repository row for the repository.
HasRepository(rows, installationId, repo) ==
    \E r \in rows : r.installationId = installationId /\ r.repoId = repo.id

\* C14: after an installation_repositories delivery with action 'removed'
\* whose payload has an empty repositories_added list and the list R as
\* repositories_removed, no repository of R that had a row has one; after a
\* delivery with action 'added' and list A every repository of A has its
\* row with the payload's name and visibility.
C14_RepositoryChangesApplied ==
    [][ repoChange' # repoChange
        => LET payload == repoChange'.payload
               i == payload.installation
               A == payload.repositories_added.items
               R == payload.repositories_removed.items
           IN  /\ ( /\ payload.action = "removed"
                    /\ payload.repositories_added.present
                    /\ \A k \in 1..Len(R) :
                           HasRepository(repositories, i, R[k]) )
                  => \A k \in 1..Len(R) :
                         ~HasRepository(repositories', i, R[k])
               /\ payload.action = "added"
                  => \A k \in 1..Len(A) :
                         RepositoryRow(i, A[k]) \in repositories'
      ]_vars

\* The rows of the installation are those of its 'created' payload: one
\* Installation row, and one Repository row for each repository of the
\* payload, with the payload's values.
Recorded(inst, repos, i) ==
    /\ {row \in inst : row.installationId = i} =
           {[installationId |-> i, accountLogin |-> AccountOf(i).login,
             accountType |-> AccountOf(i).type]}
    /\ \A repo \in RepositoriesOf(i) :
           {r \in repos : r.installationId = i /\ r.repoId = repo.id} =
               {RepositoryRow(i, repo)}

C27_OpenedSynchronizeReopenedQueue ==
    [][ \A t \in Tasks :
            ( /\ tasks[t].pc = "idle"
              /\ tasks'[t].pc # "idle"
              /\ tasks'[t].action \in {"opened", "synchronize", "reopened"} )
            => \E r \in Matching(reviews', tasks'[t].key) :
                   r.status = "pending"
      ]_vars

\* C28: in the class WebhookHandler an installation delivery with action
\* 'deleted' for an installation that has a row cancels the installation's
\* Reviews, deletes its Repository rows and deletes its Installation row.
C28_DeletedRemovesInstallation ==
    [][ ( /\ repoChange' # repoChange
          /\ repoChange'.event = "installation"
          /\ repoChange'.payload.action = "deleted"
          /\ \E i \in installations :
                 i.installationId = repoChange'.payload.installation )
        => LET id == repoChange'.payload.installation
           IN  /\ \A r \in reviews' :
                      r.installationId = id => r.status = "cancelled"
               /\ \A r \in repositories' : r.installationId # id
               /\ \A i \in installations' : i.installationId # id
      ]_vars

\* C29: in the class WebhookHandler an installation_repositories delivery
\* with action 'added' and list A leaves a Repository row for every
\* repository of A.
C29_AddedCreatesRepositoryRows ==
    [][ ( /\ repoChange' # repoChange
          /\ repoChange'.event = "installation_repositories"
          /\ repoChange'.payload.action = "added" )
        => LET payload == repoChange'.payload
               A == payload.repositories_added.items
           IN  \A k \in 1..Len(A) :
                   RepositoryRow(payload.installation, A[k])
                       \in repositories'
      ]_vars

\* The files of a fetched list that are in scope: a.js (modified, a
\* supported extension) is, b.png (binary) is not.
InScope(files) == {k \in 1..Len(files) : files[k] = FileA.filename}

\* C30: the last write of a run in which the fetch and every file succeeded
\* records as files_to_review the number of fetched files in scope, which is
\* the number of the run's FileChange rows with shouldReview true, and
\* leaves the Review in the step 'ready_for_ai_review' with progress 70,
\* for an empty and a non-empty list alike.
C30_ReadyWriteCountsFilesInScope ==
    [][ \A t \in Tasks :
            ( /\ tasks[t].pc \in {"status_ready", "catch_process"}
              /\ tasks[t].error \in {"", NotAFunction}
              /\ tasks'[t].pc = "done"
              /\ LoneRun(t) )
            => \E r \in reviews' :
                   /\ r.id = tasks[t].reviewId
                   /\ r.reviewData.step = "ready_for_ai_review"
                   /\ r.reviewData.progress = 70
                   /\ r.reviewData.files_to_review
                          = Cardinality(InScope(tasks[t].files))
                   /\ r.reviewData.files_to_review
                          = Cardinality({f \in fileChanges' :
                                            /\ f.reviewId = r.id
                                            /\ f.run = t
                                            /\ f.shouldReview})
      ]_vars

\* C31: in every reachable state, however the pull_request deliveries
\* interleave, every ReviewComment row has a FileChange row with the same
\* reviewId and the same filename, and that row has shouldReview true.
C31_CommentsHaveTheirFileChange ==
    \A c \in reviewComments :
        \E f \in fileChanges :
            /\ f.reviewId = c.reviewId
            /\ f.filename = c.fileName
            /\ f.shouldReview

\* C32: handlePullRequest changes no row of any table when the payload
\* lacks pull_request or installation, when the action is none of opened,
\* synchronize, reopened and closed, and when the action is 'closed' for a
\* pull request that has no Review.
C32_NothingToDoChangesNothing ==
    [][ \A t \in Tasks :
            ( /\ tasks[t].pc = "idle"
              /\ tasks'[t].pc = "done"
              /\ \/ tasks'[t].outcome \in {"missing", "ignored"}
                 \/ /\ tasks'[t].outcome = "cancelled"
                    /\ Matching(reviews, tasks'[t].key) = {} )
            => /\ reviews' = reviews
               /\ fileChanges' = fileChanges
               /\ reviewComments' = reviewComments
               /\ installations' = installations
               /\ repositories' = repositories
      ]_vars

\* A 'closed' delivery for a pull request without a Review was handled
\* while the store held rows of every table.
C32_Witness ==
    /\ \E t \in Tasks :
           /\ tasks[t].pc = "done"
           /\ tasks[t].outcome = "cancelled"
           /\ Matching(reviews, tasks[t].key) = {}
    /\ reviews # {}
    /\ fileChanges # {}
    /\ reviewComments # {}
    /\ installations # {}
    /\ repositories # {}

\* C33: when every awaited call settles, a delivery whose re-queue
\* transaction has committed is followed by the return of its handler, with
\* the Review no longer pending: in the ready step, failed or cancelled.
C33_PipelineTerminates ==
    \A t \in Tasks :
        (tasks[t].pc = "status_fetching")
        ~> ( /\ tasks[t].pc = "done"
             /\ \E r \in Matching(reviews, tasks[t].key) :
                    \/ r.status \in {"failed", "cancelled"}
                    \/ /\ r.status = "in_progress"
                       /\ r.reviewData.step = "ready_for_ai_review" )

\* A run over two files has returned; its Review is failed.
C33_Witness ==
    \E t \in Tasks :
        /\ tasks[t].pc = "done"
        /\ Len(tasks[t].files) = 2
        /\ \E r \in Matching(reviews, tasks[t].key) : r.status = "failed"

\* C34: within one run over n files every progress value written is an
\* integer of 10..70 and no smaller than the value before it: 10, then 30,
\* then 30 + floor(40 * i / n) after the i-th file, which is 70 after the
\* last, then 70; for n = 0 the writes per file are skipped.
C34_ProgressInRangeAndNonDecreasing ==
    [][ /\ \A t \in Tasks :
               ( /\ LoneRun(t)
                 /\ tasks[t].pc \in {"status_fetching", "status_analyzing",
                                     "status_progress", "status_ready"}
                 /\ tasks'[t] # tasks[t] )
               => LET n == Len(tasks[t].files)
                      i == tasks[t].analyzedCount + 1
                      before == CHOOSE r \in reviews :
                                    r.id = tasks[t].reviewId
                      after == CHOOSE r \in reviews' :
                                   r.id = tasks[t].reviewId
                      written == after.reviewData.progress
                  IN  /\ written \in 10..70
                      /\ written >= before.reviewData.progress
                      /\ tasks[t].pc = "status_fetching" => written = 10
                      /\ tasks[t].pc = "status_analyzing" =>
                             /\ written = 30
                             /\ n = 0 => tasks'[t].pc = "status_ready"
                      /\ tasks[t].pc = "status_progress" =>
                             /\ written = 30 + ((40 * i) \div n)
                             /\ i = n => written = 70
                      /\ tasks[t].pc = "status_ready" => written = 70
        /\ \A n \in 1..MaxFiles : \A i \in 1..n :
               /\ Progress(i, n) \in 30..70
               /\ Progress(i, n) >= Progress(i - 1, n)
               /\ Progress(n, n) = 70
      ]_vars

\* The first of two files has been analysed: the Review is at 50.
C34_Witness ==
    \E t \in Tasks : \E r \in reviews :
        /\ LoneRun(t)
        /\ tasks[t].pc = "create_file"
        /\ tasks[t].analyzedCount = 1
        /\ r.id = tasks[t].reviewId
        /\ r.reviewData.progress = 50

\* The fields queueReview takes from the pull request.
QueueTimeFields ==
    {"pr_title", "pr_author", "pr_url", "head_sha", "base_sha",
     "changed_files", "additions", "deletions"}

\* C35: a status write replaces the whole reviewData.  A Review that is
\* pending holds the fields of the queue; one a status write has made
\* in_progress or failed holds none of the pull request's fields, and a
\* failed one holds nothing but error and step.
C35_StatusWriteReplacesReviewData ==
    \A r \in reviews :
        /\ r.status = "pending" => DOMAIN r.reviewData = DOMAIN QueuedData
        /\ r.status \in {"in_progress", "failed"} =>
               DOMAIN r.reviewData \cap QueueTimeFields = {}
        /\ r.status = "in_progress" =>
               {"step", "progress"} \subseteq DOMAIN r.reviewData
        /\ r.status = "failed" =>
               /\ "error" \in DOMAIN r.reviewData
               /\ DOMAIN r.reviewData \subseteq {"error", "step"}

\* A run has failed in the pipeline: its Review holds error and step alone.
C35_Witness ==
    \E t \in Tasks : \E r \in reviews :
        /\ tasks[t].pc = "done"
        /\ tasks[t].outcome = "failed"
        /\ r \in Matching(reviews, tasks[t].key)
        /\ r.status = "failed"
        /\ DOMAIN r.reviewData = {"error", "step"}

\* The values of the status column.
ReviewStatusValues ==
    {"pending", "in_progress", "completed", "failed", "cancelled"}

\* Review rows the table may hold when an event arrives, a completed one
\* with completedAt set among them.
StoredReviews ==
    {[id |-> 7, prNumber |-> key[1], repoFullName |-> key[2],
      installationId |-> installationId, status |-> status,
      reviewData |-> [step |-> "completed", progress |-> 100],
      completedAt |-> completedAt] :
         key \in Keys, installationId \in {101, 202},
         status \in ReviewStatusValues, completedAt \in {"null", "set"}}

\* C36: the re-queue of an existing Review leaves it pending with completedAt
\* unset under the id and the installationId it had; a status write sets
\* completedAt exactly when it writes 'completed' and otherwise leaves it;
\* so every Review that has been queued and then only written as pending,
\* in_progress, failed or cancelled has completedAt unset.
C36_RequeueUnsetsCompletedAt ==
    [][ /\ \A t \in Tasks :
               Requeues(t)
               => \E r \in reviews' :
                      /\ r.id = tasks'[t].reviewId
                      /\ r.status = "pending"
                      /\ r.completedAt = "null"
                      /\ \A q \in Matching(reviews, tasks'[t].key) :
                             /\ r.id = q.id
                             /\ r.installationId = q.installationId
        /\ \A r \in reviews' :
               /\ r.status \in {"pending", "in_progress", "failed", "cancelled"}
               /\ r.completedAt = "null"
        /\ \A q \in StoredReviews :
               /\ \A installationId \in {101, 202} :
                      LET up == UpsertReview({q}, <<q.prNumber, q.repoFullName>>,
                                             installationId)
                      IN  /\ up.rows = {up.review}
                          /\ up.review =
                                 [q EXCEPT !.status = "pending",
                                           !.reviewData = QueuedData,
                                           !.completedAt = "null"]
               /\ \A status \in ReviewStatusValues :
                      UpdateData(q, status, FailedData(1)).completedAt =
                          IF status = "completed" THEN "set" ELSE q.completedAt
      ]_vars

\* A second delivery has re-queued the Review the first one left failed.
C36_Witness ==
    \E u, t \in Tasks :
        /\ u # t
        /\ tasks[u].pc = "done"
        /\ tasks[u].outcome = "failed"
        /\ tasks[t].pc = "status_fetching"
        /\ tasks[t].key = tasks[u].key
        /\ \E r \in reviews :
               /\ r.id = tasks[t].reviewId
               /\ r.status = "pending"
               /\ r.completedAt = "null"

\* Delivery u's run failed before its loop had gone over every file, and the
\* later delivery t for the same pull request, the last one for it, ran to
\* the end.
RedeliveredAfterFailure(u, t) ==
    /\ u < t
    /\ tasks[u].pc = "done"
    /\ tasks[u].outcome = "failed"
    /\ tasks[u].files = <<>>
    /\ RanToEnd(t)
    /\ tasks[u].key = tasks[t].key
    /\ \A v \in Tasks : v > t => tasks[v].key # tasks[t].key

\* The rows of the pull request's Review are those of delivery t's run over
\* its whole list.
HoldsFullSetOf(t) ==
    \A r \in Matching(reviews, tasks[t].key) :
        /\ FileChangesOf(r.id) = RunFileChanges(r.id, tasks[t].files, t)
        /\ CommentsOf(r.id) = RunComments(r.id, tasks[t].files, t)

\* C37: the step that records a failure of the pipeline sets the status to
\* 'failed' and leaves every FileChange and ReviewComment row where it is,
\* those of the failed run included; the re-queue of a later delivery
\* removes the rows of the Review, and once that delivery has run to the end
\* the rows are the full set of its own run.
C37_FailureKeepsRowsRedeliveryReplaces ==
    [][ \A t \in Tasks :
            /\ (tasks[t].pc = "catch_process" /\ tasks'[t] # tasks[t])
               => /\ fileChanges' = fileChanges
                  /\ reviewComments' = reviewComments
                  /\ \E r \in reviews' :
                         r.id = tasks[t].reviewId /\ r.status = "failed"
            /\ Requeues(t)
               => /\ {f \in fileChanges' :
                         f.reviewId = tasks'[t].reviewId} = {}
                  /\ {c \in reviewComments' :
                         c.reviewId = tasks'[t].reviewId} = {}
            /\ \A u \in Tasks :
                   RedeliveredAfterFailure(u, t)' => HoldsFullSetOf(t)'
      ]_vars

\* A run failed after it had inserted rows: the Review is failed and the
\* rows are still there.
C37_Witness ==
    \E t \in Tasks : \E r \in reviews :
        /\ tasks[t].pc = "done"
        /\ tasks[t].outcome = "failed"
        /\ tasks[t].files = <<>>
        /\ r \in Matching(reviews, tasks[t].key)
        /\ r.status = "failed"
        /\ \E f \in FileChangesOf(r.id) : f.run = t
        /\ \E c \in CommentsOf(r.id) : c.run = t

\* C38: after an installation_repositories delivery with action 'removed'
\* whose list reaches handleRepositoryChanges, no repository of the list has
\* a Repository row of the installation, whether or not each had one before.
C38_RemovedLeavesNoRowOfList ==
    [][ ( /\ repoChange' # repoChange
          /\ repoChange'.payload.action = "removed"
          /\ ~repoChange'.payload.repositories_added.present )
        => LET payload == repoChange'.payload
               list == payload.repositories_removed.items
           IN  \A k \in 1..Len(list) :
                   ~\E r \in repositories' :
                        /\ r.installationId = payload.installation
                        /\ r.repoId = list[k].id
      ]_vars

\* The step is the delivery of a synchronize or closed event for the pull
\* request of Review r to the class WebhookHandler.
NextEventFor(r) ==
    \E t \in Tasks :
        /\ tasks[t].pc = "idle"
        /\ tasks'[t].pc # "idle"
        /\ tasks'[t].action \in {"synchronize", "closed"}
        /\ tasks'[t].key = <<r.prNumber, r.repoFullName>>

\* C39: with the timers of simulateReviewProgress, between two events for
\* its pull request a Review goes from pending to in_progress and from
\* in_progress to completed with completedAt set and makes no other change
\* of status; one that is completed stays completed until the next
\* synchronize or closed event for the pull request, however the events and
\* the timers of earlier events interleave.
C39_CompletedStaysUntilNextEvent ==
    [][ \A r \in reviews : \A q \in reviews' :
            ( /\ q.id = r.id
              /\ q.status # r.status
              /\ ~NextEventFor(r)
              /\ repoChange' = repoChange )
            => \/ r.status = "pending" /\ q.status = "in_progress"
               \/ /\ r.status = "in_progress"
                  /\ q.status = "completed"
                  /\ q.completedAt = "set"
      ]_vars

====
